---- MODULE Spec2Model ----
(***************************************************************************)
(* The MongoDB -> Google Sheets -> Interakt synchronizer of                *)
(* realtimeSync.js: the snapshot bootstrap (startSync), the change-stream  *)
(* handlers (watchChanges), the sheet operations (appendRow, updateRow,    *)
(* clearRow), the row index (idToRow, buildIndexFromSheet) and the retry   *)
(* executor (withRetry).                                                   *)
(*                                                                         *)
(* JavaScript runs one callback at a time: the code between two awaits is  *)
(* one atomic step.  A call to the sheet is three events: the request is   *)
(* issued (end of a step), the sheet applies it (a step of the sink), and  *)
(* the caller's continuation runs on the response.  A failed invocation    *)
(* changes nothing but withRetry's own retries and delay, so the failed    *)
(* invocations of one withRetry call are taken together with the step that *)
(* ends them: the invocation that succeeds, or the return of the exhausted *)
(* withRetry.  The separate specification SpecRetry steps through          *)
(* withRetry one invocation at a time.                                     *)
(***************************************************************************)
EXTENDS Integers, Sequences, FiniteSets, TLC

(* ------------------------------ bounds -------------------------------- *)
MaxEvents == 2    \* what the environment does to the pipeline while the model
                  \* runs: mutations of the store and restarts of startSync
MaxFails == 4     \* failing invocations in a row the sink gives one withRetry call
MaxRetriesArg == 4  \* the largest retries argument a stepped withRetry call is given

(* ------------------------- program constants -------------------------- *)
DefaultRetries == 3
DefaultDelay == 1000
ReconnectDelay == 10000
StartupRetryDelay == 15000

(* ------------------------------ values -------------------------------- *)
\* A field value is tagged with its JavaScript type: t = "str" | "oid" | "null".
Str(s) == [t |-> "str", s |-> s]
ObjectId(s) == [t |-> "oid", s |-> s]
NullVal == [t |-> "null", s |-> ""]

\* String(v) and v.toString() of an ObjectId: its hex string.
StringOf(v) == v.s

IdStrs == {"e1", "e2"}
\* The name an insert, an update and a replace give an entity.
NameOf == [insert |-> "n1", update |-> "n2", replace |-> "n3"]

\* fullDocument === null (an update whose document is gone at lookup time)
Null == [isNull |-> TRUE]
MkDoc(id, n) == [_id |-> ObjectId(id), fullName |-> Str(n)]

(* ------------------------------ fieldMap.js --------------------------- *)
COLUMNS ==
  << [key |-> "_id", header |-> "ID"],
     [key |-> "fullName", header |-> "Name"],
     [key |-> "email", header |-> "Email"],
     [key |-> "mobile", header |-> "Phone"],
     [key |-> "createdAt", header |-> "Created At"],
     [key |-> "grade", header |-> "Grade"],
     [key |-> "subject", header |-> "Subject"] >>

\* A Date whose time value is finite, with s its ISO string; a Date whose time
\* value is NaN (a stored date outside the range of a JavaScript Date); an
\* object whose own field toString is not a function.
DateVal(iso) == [t |-> "date", s |-> iso]
InvalidDate == [t |-> "invalidDate", s |-> ""]
BadToString == [t |-> "objBadToString", s |-> ""]

\* The callback of docToRow throws for this field: toISOString() of an invalid
\* Date is a RangeError, v.toString?.() of a non-callable toString a TypeError.
CellRaises(doc, key) ==
  /\ key \in DOMAIN doc
  /\ doc[key].t \in {"invalidDate", "objBadToString"}

\* One cell of docToRow: v == null -> "", a Date -> v.toISOString(), an object
\* -> v.toString(), else v.
CellOf(doc, key) ==
  IF key \notin DOMAIN doc THEN ""
  ELSE IF doc[key].t = "null" THEN ""
  ELSE IF doc[key].t = "date" THEN doc[key].s
  ELSE IF doc[key].t = "oid" THEN StringOf(doc[key])
  ELSE doc[key].s

docToRowRaises(doc) == \E i \in 1..Len(COLUMNS) : CellRaises(doc, COLUMNS[i].key)

docToRow(doc) == [i \in 1..Len(COLUMNS) |-> CellOf(doc, COLUMNS[i].key)]

header == [i \in 1..Len(COLUMNS) |-> COLUMNS[i].header]

\* COLUMNS.findIndex(c => c.key === '_id'), 1-based here.
idCol == CHOOSE i \in 1..Len(COLUMNS) : COLUMNS[i].key = "_id"

(* ------------------------------ the sheet ----------------------------- *)
\* The sheet is the sequence of its rows up to the last non-blank one; a row is
\* the cells of the configured columns.
BlankRow == [i \in 1..Len(COLUMNS) |-> ""]
IsBlank(row) == \A i \in 1..Len(row) : row[i] = ""

RECURSIVE Trim(_)
Trim(s) ==
  IF s = <<>> THEN s
  ELSE IF IsBlank(s[Len(s)]) THEN Trim(SubSeq(s, 1, Len(s) - 1))
  ELSE s

RowAt(sh, r) == IF r \in 1..Len(sh) THEN sh[r] ELSE BlankRow

Larger(a, b) == IF a >= b THEN a ELSE b

\* values.clear on A:ZZ
SheetClearAll(sh) == <<>>

\* values.update at A1 with values: overwrites rows 1..Len(values), keeps the rest.
SheetWriteFromA1(sh, values) ==
  Trim([i \in 1..Larger(Len(sh), Len(values)) |->
          IF i <= Len(values) THEN values[i] ELSE sh[i]])

\* values.update on the row after rowNumber.
SheetSetRowBelow(sh, r, row) ==
  Trim([i \in 1..Larger(Len(sh), r + 1) |-> IF i = r + 1 THEN row ELSE RowAt(sh, i)])

\* values.update / values.clear on rowRangeA1(r)
SheetSetRow(sh, r, row) ==
  Trim([i \in 1..Larger(Len(sh), r) |-> IF i = r THEN row ELSE RowAt(sh, i)])

\* values.append on A:A with INSERT_ROWS: the row lands after the last row
\* that holds data.
AppendPosition(sh) == Len(sh) + 1
SheetAppend(sh, row) == SheetSetRow(sh, AppendPosition(sh), row)

\* values.get on A2:ZZ: the data rows, each without its trailing empty cells.
RECURSIVE TrimCells(_)
TrimCells(row) ==
  IF row = <<>> THEN row
  ELSE IF row[Len(row)] = "" THEN TrimCells(SubSeq(row, 1, Len(row) - 1))
  ELSE row

SheetGetData(sh) ==
  IF Len(sh) < 2 THEN <<>>
  ELSE [i \in 1..(Len(sh) - 1) |-> TrimCells(sh[i + 1])]

(* ------------------------- buildIndexFromSheet ------------------------ *)
NoIndex == [k \in IdStrs |-> 0]

\* row[idCol] ?? ''
IdCell(row) == IF idCol <= Len(row) THEN row[idCol] ELSE ""

\* The loop with rowNum++ inside the if: a row without an id does not advance
\* the counter.
RECURSIVE IndexRowsSkipping(_, _, _)
IndexRowsSkipping(rows, i, m) ==
  IF rows = <<>> THEN m
  ELSE IF IdCell(Head(rows)) # ""
       THEN IndexRowsSkipping(Tail(rows), i + 1, [m EXCEPT ![IdCell(Head(rows))] = i + 1])
       ELSE IndexRowsSkipping(Tail(rows), i, m)

\* The loop of buildIndexFromSheet from data row i on, rowNum = i + 1.
RECURSIVE IndexRows(_, _, _)
IndexRows(rows, i, m) ==
  IF i > Len(rows) THEN m
  ELSE IndexRows(rows, i + 1,
         IF IdCell(rows[i]) # "" THEN [m EXCEPT ![IdCell(rows[i])] = i + 1] ELSE m)

buildIndexFromSheet(rows) == IndexRows(rows, 1, NoIndex)

(* ------------------------------ withRetry ----------------------------- *)
\* if (retries <= 1) { log; return }
RetryExhaustedEarly(retries) == retries <= 1

\* withRetry(fn, label, retries - 2, delay * 2)
RetriesAfterFailureByTwo(retries) == retries - 2

\* withRetry(fn, label, retries - 1, delay + 1000)
DelayAfterFailureLinear(delay) == delay + 1000

\* if (retries <= 0) { log; return }
RetryExhausted(retries) == retries <= 0
\* withRetry(fn, label, retries - 1, delay * 2)
RetriesAfterFailure(retries) == retries - 1
DelayAfterFailure(delay) == delay * 2

\* What withRetry(fn, label, retries) comes to when the first j invocations of
\* fn fail and the next one would succeed.
RECURSIVE WithRetryResult(_, _)
WithRetryResult(j, retries) ==
  IF j = 0 THEN "ok"
  ELSE IF RetryExhausted(retries) THEN "exhausted"
  ELSE WithRetryResult(j - 1, RetriesAfterFailure(retries))

(* ------------------------------ the state ----------------------------- *)
VARIABLES
  store,        \* the primary collection: id -> name, or "none"
  nMut,         \* mutations performed so far
  sheet,        \* the spreadsheet
  idToRow,      \* the row index: id -> row number, 0 for no entry
  client,       \* the global client: the run that created it, 0 for undefined
  clientState,  \* of the client each run creates
  col,          \* the global collection handle: the client it belongs to
  runs,         \* the runs of startSync, in the order they began
  timers,       \* pending setTimeout(startSync, d): d -> how many
  streams,      \* the change stream each run subscribes
  feed,         \* change events a stream has not delivered yet
  handlers,     \* the invocations of the 'change' listener, in delivery order
  degraded,     \* a sink invocation has failed, or an append response had no
                \* row number
  wr,           \* one call of withRetry, stepped through by SpecRetry
  legacy,       \* the process of the first version of the synchronizer (main)
  snap,         \* a change event delivered a second time: the sheet and the
                \* index as its first handling left them
  pure          \* one application of a pure function: argument and outcome

pipeline == << store, nMut, sheet, idToRow, client, clientState, col, runs, timers,
               streams, feed, handlers, degraded >>

\* What the pipeline of realtimeSync.js leaves alone.
side == << wr, legacy, snap, pure >>

vars == << pipeline, side >>

RunIds == 1..(MaxEvents + 1)
Delays == {ReconnectDelay, StartupRetryDelay}
IdOrder == << "e1", "e2" >>

\* col.find({}).toArray(): the documents in store-iteration order.
RECURSIVE FindAll(_, _)
FindAll(st, i) ==
  IF i > Len(IdOrder) THEN <<>>
  ELSE (IF st[IdOrder[i]] = "none" THEN <<>> ELSE << MkDoc(IdOrder[i], st[IdOrder[i]]) >>)
       \o FindAll(st, i + 1)

\* The sheets the bootstrap may find: empty, or rows left by an earlier export.
InitialSheets ==
  { <<>>,
    << header, docToRow(MkDoc("e1", "n2")), docToRow(MkDoc("e2", "n2")),
       docToRow(MkDoc("e2", "n3")) >> }

NewRun(pc) == [pc |-> pc, closing |-> 0, docs |-> <<>>, rows |-> <<>>]

\* No call of withRetry is stepped through.
NoCall ==
  [pc |-> "none", k |-> 0, always |-> FALSE, maxRetries |-> 0, retries |-> 0,
   delay |-> 0, invocations |-> 0, logs |-> 0, waits |-> <<>>,
   result |-> [ok |-> FALSE, value |-> 0]]

\* realtimeSync.js is not the first version: no process of main() runs.
NoProcess == [state |-> "none", code |-> 0]

\* No event has been delivered twice.
NoEvent == [op |-> "", id |-> "", n |-> ""]
NoSnap ==
  [phase |-> "none", ev |-> NoEvent, doc |-> [isNull |-> TRUE], sheet |-> <<>>,
   idToRow |-> NoIndex]

\* No pure function is being applied.
NoApplication == [fn |-> "none"]

\* The module body calls startSync(): no client yet, so the run creates one and
\* awaits client.connect().
Init ==
  /\ store \in [IdStrs -> {"none", NameOf.insert}]
  /\ nMut = 0
  /\ sheet \in InitialSheets
  /\ idToRow = NoIndex
  /\ client = 1
  /\ clientState = [k \in RunIds |-> IF k = 1 THEN "created" ELSE "none"]
  /\ col = 0
  /\ runs = << NewRun("connecting") >>
  /\ timers = [d \in Delays |-> 0]
  /\ streams = [k \in RunIds |-> [state |-> "none", client |-> 0]]
  /\ feed = [k \in RunIds |-> <<>>]
  /\ handlers = <<>>
  /\ degraded = FALSE
  /\ wr = NoCall
  /\ legacy = NoProcess
  /\ snap = NoSnap
  /\ pure = NoApplication

\* The sink fails the first j invocations of a withRetry call.
Failing(j) == degraded' = (degraded \/ j > 0)

\* Mutations and restarts so far.
Events == nMut + Len(runs) - 1

(* ------------------------------ startSync ----------------------------- *)
\* The listener logs and schedules nothing.
SetNoTimer(d) == timers

SetTimer(d) == [timers EXCEPT ![d] = @ + 1]

\* catch (err) { ...; setTimeout(startSync, 15000) }
StartupCatch(k) ==
  /\ runs' = [runs EXCEPT ![k] = NewRun("failed")]
  /\ timers' = SetTimer(StartupRetryDelay)

\* A timer fires: startSync() runs up to `await client.close()`.
TimerFire(d) ==
  /\ timers[d] > 0
  /\ Events < MaxEvents
  /\ client # 0
  /\ timers' = [timers EXCEPT ![d] = @ - 1]
  /\ runs' = Append(runs, [NewRun("closing") EXCEPT !.closing = client])
  /\ UNCHANGED << store, nMut, sheet, idToRow, client, clientState, col, streams,
                  feed, handlers, degraded, side >>

\* client.close() completes (its streams end); then client = new MongoClient(...)
\* and client.connect() is awaited.
CloseDone(k) ==
  /\ runs[k].pc = "closing"
  /\ clientState' = [clientState EXCEPT ![runs[k].closing] = "closed", ![k] = "created"]
  /\ streams' = [s \in RunIds |->
                   IF streams[s].state = "open" /\ streams[s].client = runs[k].closing
                   THEN [streams[s] EXCEPT !.state = "dead"] ELSE streams[s]]
  /\ client' = k
  /\ runs' = [runs EXCEPT ![k].pc = "connecting", ![k].closing = 0]
  /\ UNCHANGED << store, nMut, sheet, idToRow, col, timers, feed, handlers, degraded,
                  side >>

\* connect resolves; col = client.db(..).collection(..); col.find({}).toArray()
\* resolves with the documents; header, rows and values are computed and
\* withRetry(clear A:ZZ, 'clearSheet') issues its call.
ConnectOk(k) ==
  /\ runs[k].pc = "connecting"
  /\ clientState[k] = "created"
  /\ clientState[client] \in {"created", "connected"}
  /\ clientState' = [clientState EXCEPT ![k] = "connected"]
  /\ col' = client
  /\ runs' = [runs EXCEPT ![k].pc = "clearSheet", ![k].docs = FindAll(store, 1)]
  /\ UNCHANGED << store, nMut, sheet, idToRow, client, timers, streams, feed,
                  handlers, degraded, side >>

\* connect or find rejects (the store cannot be reached, the client was closed).
ConnectFail(k) ==
  /\ runs[k].pc = "connecting"
  /\ StartupCatch(k)
  /\ UNCHANGED << store, nMut, sheet, idToRow, client, clientState, col, streams,
                  feed, handlers, degraded, side >>

\* values.clear on A:ZZ through withRetry; then withRetry(update at A1,
\* 'initialExport') issues its call, whether the clear succeeded or not.
ClearSheet(k) ==
  /\ runs[k].pc = "clearSheet"
  /\ \E j \in 0..MaxFails :
       /\ sheet' = IF WithRetryResult(j, DefaultRetries) = "ok"
                   THEN SheetClearAll(sheet) ELSE sheet
       /\ Failing(j)
  /\ runs' = [runs EXCEPT ![k].pc = "initialExport"]
  /\ UNCHANGED << store, nMut, idToRow, client, clientState, col, timers, streams,
                  feed, handlers, side >>

\* values = [header, ...docs.map(docToRow)]
ExportValues(docs) == << header >> \o [i \in 1..Len(docs) |-> docToRow(docs[i])]

\* values.update at A1 through withRetry; then the documents are pushed to
\* Interakt one by one (which changes nothing here) and buildIndexFromSheet
\* awaits values.get, whether the export succeeded or not.
InitialExport(k) ==
  /\ runs[k].pc = "initialExport"
  /\ \E j \in 0..MaxFails :
       /\ sheet' = IF WithRetryResult(j, DefaultRetries) = "ok"
                   THEN SheetWriteFromA1(sheet, ExportValues(runs[k].docs)) ELSE sheet
       /\ Failing(j)
  /\ runs' = [runs EXCEPT ![k].pc = "indexGet"]
  /\ UNCHANGED << store, nMut, idToRow, client, clientState, col, timers, streams,
                  feed, handlers, side >>

\* startSync subscribing before the index is rebuilt: col.watch is called while
\* values.get is awaited.
SubscribeBeforeIndex(k) ==
  /\ runs[k].pc = "indexGet"
  /\ runs' = [runs EXCEPT ![k].pc = "indexBuild", ![k].rows = SheetGetData(sheet)]
  /\ streams' = [streams EXCEPT ![k] = [state |-> "open", client |-> col]]
  /\ UNCHANGED << store, nMut, sheet, idToRow, client, clientState, col, timers,
                  feed, handlers, degraded, side >>

\* values.get on A2:ZZ, not wrapped in withRetry.
IndexGetOk(k) ==
  /\ runs[k].pc = "indexGet"
  /\ runs' = [runs EXCEPT ![k].pc = "indexBuild", ![k].rows = SheetGetData(sheet)]
  /\ UNCHANGED << store, nMut, sheet, idToRow, client, clientState, col, timers,
                  streams, feed, handlers, degraded, side >>

IndexGetFail(k) ==
  /\ runs[k].pc = "indexGet"
  /\ Failing(1)
  /\ StartupCatch(k)
  /\ UNCHANGED << store, nMut, sheet, idToRow, client, clientState, col, streams,
                  feed, handlers, side >>

\* The rest of buildIndexFromSheet (clear, loop), then watchChanges(): col.watch
\* and the three listeners; startSync returns.
IndexBuild(k) ==
  /\ runs[k].pc = "indexBuild"
  /\ idToRow' = buildIndexFromSheet(runs[k].rows)
  /\ streams' = [streams EXCEPT ![k] = [state |-> "open", client |-> col]]
  /\ runs' = [runs EXCEPT ![k] = [NewRun("watching") EXCEPT !.docs = runs[k].docs]]
  /\ UNCHANGED << store, nMut, sheet, client, clientState, col, timers, feed,
                  handlers, degraded, side >>

(* --------------------------- the change stream ------------------------ *)
\* stream.on('error', ...): setTimeout(startSync, 10000); the stream delivers
\* nothing more.
StreamError(s) ==
  /\ streams[s].state = "open"
  /\ streams' = [streams EXCEPT ![s].state = "dead"]
  /\ feed' = [feed EXCEPT ![s] = <<>>]
  /\ timers' = SetTimer(ReconnectDelay)
  /\ UNCHANGED << store, nMut, sheet, idToRow, client, clientState, col, runs,
                  handlers, degraded, side >>

\* stream.on('close', ...): setTimeout(startSync, 10000).  The driver may close a
\* stream on its own, after an error, or when its client is closed.
StreamClose(s) ==
  /\ streams[s].state \in {"open", "dead"}
  /\ streams' = [streams EXCEPT ![s].state = "closed"]
  /\ feed' = [feed EXCEPT ![s] = <<>>]
  /\ timers' = SetTimer(ReconnectDelay)
  /\ UNCHANGED << store, nMut, sheet, idToRow, client, clientState, col, runs,
                  handlers, degraded, side >>

Watching(s) == streams[s].state = "open" /\ clientState[streams[s].client] = "connected"

\* The store's mutations are followed while a stream is watching.  (A change
\* whose event is still in the feed when the stream ends is lost like one made
\* while no stream watches; changes between a run's find and its subscription
\* are not followed.)
CanMutate ==
  /\ Events < MaxEvents
  /\ \E s \in RunIds : Watching(s)

\* The store performs a mutation; every live stream gets the change event.
Emit(ev) ==
  feed' = [s \in RunIds |-> IF Watching(s) THEN Append(feed[s], ev) ELSE feed[s]]

StoreInsert(id) ==
  /\ CanMutate
  /\ store[id] = "none"
  /\ store' = [store EXCEPT ![id] = NameOf.insert]
  /\ nMut' = nMut + 1
  /\ Emit([op |-> "insert", id |-> id, n |-> NameOf.insert])
  /\ UNCHANGED << sheet, idToRow, client, clientState, col, runs, timers, streams,
                  handlers, degraded, side >>

StoreUpdate(op, id) ==
  /\ CanMutate
  /\ store[id] # "none"
  /\ store' = [store EXCEPT ![id] = NameOf[op]]
  /\ nMut' = nMut + 1
  /\ Emit([op |-> op, id |-> id, n |-> NameOf[op]])
  /\ UNCHANGED << sheet, idToRow, client, clientState, col, runs, timers, streams,
                  handlers, degraded, side >>

StoreDelete(id) ==
  /\ CanMutate
  /\ store[id] # "none"
  /\ store' = [store EXCEPT ![id] = "none"]
  /\ nMut' = nMut + 1
  /\ Emit([op |-> "delete", id |-> id, n |-> ""])
  /\ UNCHANGED << sheet, idToRow, client, clientState, col, runs, timers, streams,
                  handlers, degraded, side >>

\* change.fullDocument: the inserted or replacing document; for an update the
\* document looked up after the change (fullDocument: 'updateLookup'), which is
\* the post-image, a later version, or null when the entity is gone.
FullDocuments(ev) ==
  IF ev.op = "delete" THEN {Null}
  ELSE IF ev.op = "update"
       THEN {MkDoc(ev.id, ev.n)} \cup
            {IF store[ev.id] = "none" THEN Null ELSE MkDoc(ev.id, store[ev.id])}
       ELSE {MkDoc(ev.id, ev.n)}

(* ----------------------- the 'change' listener ------------------------ *)
\* A handler that has returned keeps nothing.
Finished ==
  [stream |-> 0, op |-> "", id |-> "", doc |-> Null, pc |-> "done", row |-> 0,
   resp |-> 0, placed |-> 0, acted |-> FALSE, indexed |-> FALSE]

InFlight(i) == handlers[i].pc # "done"

\* The listener without the fallback: an update for an entity idToRow does not
\* hold is dropped.
DispatchNoFallback(s, ev, doc) ==
  LET id == StringOf(ObjectId(ev.id))
      h0 == [stream |-> s, op |-> ev.op, id |-> id, doc |-> doc, pc |-> "new",
             row |-> 0, resp |-> 0, placed |-> 0, acted |-> FALSE,
             indexed |-> idToRow[id] # 0]
  IN IF ev.op = "insert" THEN [h0 EXCEPT !.pc = "append"]
     ELSE IF ev.op \in {"update", "replace"} /\ idToRow[id] # 0
          THEN [h0 EXCEPT !.pc = "update", !.row = idToRow[id]]
          ELSE IF ev.op = "delete" /\ idToRow[id] # 0
               THEN [h0 EXCEPT !.pc = "clear", !.row = idToRow[id]]
               ELSE Finished

\* The listener up to its first await.  indexed notes whether idToRow had the
\* id when the event was dispatched; row is the listener's rowNumber.
Dispatch(s, ev, doc) ==
  LET id == StringOf(ObjectId(ev.id))
      h0 == [stream |-> s, op |-> ev.op, id |-> id, doc |-> doc, pc |-> "new",
             row |-> 0, resp |-> 0, placed |-> 0, acted |-> FALSE,
             indexed |-> idToRow[id] # 0]
  IN IF ev.op = "insert" THEN [h0 EXCEPT !.pc = "append"]
     ELSE IF ev.op \in {"update", "replace"}
          THEN IF idToRow[id] # 0
               THEN [h0 EXCEPT !.pc = "update", !.row = idToRow[id]]
               ELSE [h0 EXCEPT !.pc = "append"]
          ELSE IF idToRow[id] # 0
               THEN [h0 EXCEPT !.pc = "clear", !.row = idToRow[id]]
               ELSE Finished

Deliver(s) ==
  /\ Watching(s)
  /\ feed[s] # <<>>
  /\ \E doc \in FullDocuments(Head(feed[s])) :
       handlers' = Append(handlers, Dispatch(s, Head(feed[s]), doc))
  /\ feed' = [feed EXCEPT ![s] = Tail(@)]
  /\ UNCHANGED << store, nMut, sheet, idToRow, client, clientState, col, runs,
                  timers, streams, degraded, side >>

(* --------------------- appendRow, updateRow, clearRow ----------------- *)
Unparseable == 0

\* values.append succeeds (after the failed invocations withRetry absorbed): the
\* sheet appends the row and answers with the range it wrote, from which a row
\* number can be parsed or not.
AppendApply(i) ==
  /\ handlers[i].pc = "append"
  /\ \E j \in 0..MaxFails :
       /\ WithRetryResult(j, DefaultRetries) = "ok"
       /\ Failing(j)
  /\ sheet' = SheetAppend(sheet, docToRow(handlers[i].doc))
  /\ \E resp \in {AppendPosition(sheet), Unparseable} :
       handlers' = [handlers EXCEPT ![i].pc = "appendResp", ![i].resp = resp,
                                    ![i].placed = AppendPosition(sheet),
                                    ![i].acted = TRUE]
  /\ UNCHANGED << store, nMut, idToRow, client, clientState, col, runs, timers,
                  streams, feed, side >>

\* Every invocation of values.append failed: withRetry logs and returns, and
\* appendRow goes on to syncToInterakt(doc).
AppendExhausted(i) ==
  /\ handlers[i].pc = "append"
  /\ \E j \in 0..MaxFails :
       /\ WithRetryResult(j, DefaultRetries) = "exhausted"
       /\ Failing(j)
  /\ handlers' = [handlers EXCEPT ![i].pc = "interakt"]
  /\ UNCHANGED << store, nMut, sheet, idToRow, client, clientState, col, runs,
                  timers, streams, feed, side >>

\* appendRow that throws when the response names no row: withRetry invokes the
\* append again.
AppendReturnOrRetry(i) ==
  /\ handlers[i].pc = "appendResp"
  /\ idToRow' = IF handlers[i].resp = Unparseable \/ handlers[i].doc = Null
                THEN idToRow
                ELSE [idToRow EXCEPT
                        ![StringOf(handlers[i].doc._id)] = handlers[i].resp]
  /\ degraded' = (degraded \/ handlers[i].resp = Unparseable)
  /\ handlers' = [handlers EXCEPT
                    ![i].pc = IF handlers[i].resp = Unparseable THEN "append"
                              ELSE "interakt"]
  /\ UNCHANGED << store, nMut, sheet, client, clientState, col, runs, timers,
                  streams, feed, side >>

\* The rest of the function appendRow gives to withRetry:
\*   if (rowNumber) idToRow.set(String(doc._id), rowNumber)
\* then syncToInterakt(doc) is awaited.  With a null document doc._id throws;
\* withRetry takes that for a failed invocation and appends the (blank) row
\* again until a response has no row number or the retries are used up, which
\* changes neither the sheet nor idToRow.
AppendReturn(i) ==
  /\ handlers[i].pc = "appendResp"
  /\ idToRow' = IF handlers[i].resp = Unparseable \/ handlers[i].doc = Null
                THEN idToRow
                ELSE [idToRow EXCEPT
                        ![StringOf(handlers[i].doc._id)] = handlers[i].resp]
  /\ degraded' = (degraded \/ handlers[i].resp = Unparseable)
  /\ handlers' = [handlers EXCEPT ![i].pc = "interakt"]
  /\ UNCHANGED << store, nMut, sheet, client, clientState, col, runs, timers,
                  streams, feed, side >>

\* updateRow that also drops the entity's entry from idToRow.
UpdateApplyForgets(i) ==
  /\ handlers[i].pc = "update"
  /\ \E j \in 0..MaxFails :
       /\ WithRetryResult(j, DefaultRetries) = "ok"
       /\ Failing(j)
  /\ sheet' = SheetSetRow(sheet, handlers[i].row, docToRow(handlers[i].doc))
  /\ idToRow' = [idToRow EXCEPT ![handlers[i].id] = 0]
  /\ handlers' = [handlers EXCEPT ![i].pc = "interakt", ![i].acted = TRUE]
  /\ UNCHANGED << store, nMut, client, clientState, col, runs, timers,
                  streams, feed, side >>

\* values.update on rowRangeA1(rowNumber) succeeds; then syncToInterakt(doc) is
\* awaited.
UpdateApply(i) ==
  /\ handlers[i].pc = "update"
  /\ \E j \in 0..MaxFails :
       /\ WithRetryResult(j, DefaultRetries) = "ok"
       /\ Failing(j)
  /\ sheet' = SheetSetRow(sheet, handlers[i].row, docToRow(handlers[i].doc))
  /\ handlers' = [handlers EXCEPT ![i].pc = "interakt", ![i].acted = TRUE]
  /\ UNCHANGED << store, nMut, idToRow, client, clientState, col, runs, timers,
                  streams, feed, side >>

\* updateRow whose withRetry throws when the retries are used up: the listener's
\* catch takes over and syncToInterakt is not called.
UpdateExhaustedThrows(i) ==
  /\ handlers[i].pc = "update"
  /\ \E j \in 0..MaxFails :
       /\ WithRetryResult(j, DefaultRetries) = "exhausted"
       /\ Failing(j)
  /\ handlers' = [handlers EXCEPT ![i] = Finished]
  /\ UNCHANGED << store, nMut, sheet, idToRow, client, clientState, col, runs,
                  timers, streams, feed, side >>

UpdateExhausted(i) ==
  /\ handlers[i].pc = "update"
  /\ \E j \in 0..MaxFails :
       /\ WithRetryResult(j, DefaultRetries) = "exhausted"
       /\ Failing(j)
  /\ handlers' = [handlers EXCEPT ![i].pc = "interakt"]
  /\ UNCHANGED << store, nMut, sheet, idToRow, client, clientState, col, runs,
                  timers, streams, feed, side >>

\* values.clear on rowRangeA1(rowNumber) succeeds.
ClearApply(i) ==
  /\ handlers[i].pc = "clear"
  /\ \E j \in 0..MaxFails :
       /\ WithRetryResult(j, DefaultRetries) = "ok"
       /\ Failing(j)
  /\ sheet' = SheetSetRow(sheet, handlers[i].row, BlankRow)
  /\ handlers' = [handlers EXCEPT ![i].pc = "clearResp", ![i].acted = TRUE]
  /\ UNCHANGED << store, nMut, idToRow, client, clientState, col, runs, timers,
                  streams, feed, side >>

\* clearRow has returned: idToRow.delete(id), and the listener returns.
ClearReturn(i) ==
  /\ handlers[i].pc = "clearResp"
  /\ idToRow' = [idToRow EXCEPT ![handlers[i].id] = 0]
  /\ handlers' = [handlers EXCEPT ![i] = Finished]
  /\ UNCHANGED << store, nMut, sheet, client, clientState, col, runs, timers,
                  streams, feed, degraded, side >>

\* Every invocation of values.clear failed: withRetry logs and returns, clearRow
\* returns, and the listener goes on to idToRow.delete(id) all the same.
ClearExhausted(i) ==
  /\ handlers[i].pc = "clear"
  /\ \E j \in 0..MaxFails :
       /\ WithRetryResult(j, DefaultRetries) = "exhausted"
       /\ Failing(j)
  /\ idToRow' = [idToRow EXCEPT ![handlers[i].id] = 0]
  /\ handlers' = [handlers EXCEPT ![i] = Finished]
  /\ UNCHANGED << store, nMut, sheet, client, clientState, col, runs, timers,
                  streams, feed, side >>

\* syncToInterakt(doc) settles (it catches its own errors); appendRow or
\* updateRow returns, and so does the listener.
InteraktDone(i) ==
  /\ handlers[i].pc = "interakt"
  /\ handlers' = [handlers EXCEPT ![i] = Finished]
  /\ UNCHANGED << store, nMut, sheet, idToRow, client, clientState, col, runs,
                  timers, streams, feed, degraded, side >>

\* The listener without its try/catch: the rejection is unhandled, the process
\* ends and its streams with it.
HandlerEscapes(i) ==
  /\ handlers[i].pc = "interakt"
  /\ handlers[i].doc = Null
  /\ handlers' = [handlers EXCEPT ![i] = Finished]
  /\ streams' = [s \in RunIds |-> [streams[s] EXCEPT !.state = "closed"]]
  /\ UNCHANGED << store, nMut, sheet, idToRow, client, clientState, col, runs,
                  timers, feed, degraded, side >>

\* syncToInterakt(null) throws reading a property of null: in its own try
\* block, and then again in the catch block that reads recordData._id, or in
\* the guard `if (!doc.mobile)` outside any try.  The exception passes through
\* appendRow or updateRow to the listener's catch, which logs it; the listener
\* returns.
HandlerCatch(i) ==
  /\ handlers[i].pc = "interakt"
  /\ handlers[i].doc = Null
  /\ handlers' = [handlers EXCEPT ![i] = Finished]
  /\ UNCHANGED << store, nMut, sheet, idToRow, client, clientState, col, runs,
                  timers, streams, feed, degraded, side >>

(* ------------------------------ the system ---------------------------- *)
Next ==
  \/ \E d \in Delays : TimerFire(d)
  \/ \E k \in 1..Len(runs) : CloseDone(k)
  \/ \E k \in 1..Len(runs) : ConnectOk(k)
  \/ \E k \in 1..Len(runs) : ConnectFail(k)
  \/ \E k \in 1..Len(runs) : ClearSheet(k)
  \/ \E k \in 1..Len(runs) : InitialExport(k)
  \/ \E k \in 1..Len(runs) : IndexGetOk(k)
  \/ \E k \in 1..Len(runs) : IndexGetFail(k)
  \/ \E k \in 1..Len(runs) : IndexBuild(k)
  \/ \E s \in RunIds : StreamError(s)
  \/ \E s \in RunIds : StreamClose(s)
  \/ \E s \in RunIds : Deliver(s)
  \/ \E id \in IdStrs : StoreInsert(id)
  \/ \E id \in IdStrs, op \in {"update", "replace"} : StoreUpdate(op, id)
  \/ \E id \in IdStrs : StoreDelete(id)
  \/ \E i \in 1..Len(handlers) : AppendApply(i)
  \/ \E i \in 1..Len(handlers) : AppendExhausted(i)
  \/ \E i \in 1..Len(handlers) : AppendReturn(i)
  \/ \E i \in 1..Len(handlers) : UpdateApply(i)
  \/ \E i \in 1..Len(handlers) : UpdateExhausted(i)
  \/ \E i \in 1..Len(handlers) : ClearApply(i)
  \/ \E i \in 1..Len(handlers) : ClearExhausted(i)
  \/ \E i \in 1..Len(handlers) : ClearReturn(i)
  \/ \E i \in 1..Len(handlers) : InteraktDone(i)
  \/ \E i \in 1..Len(handlers) : HandlerCatch(i)

Spec == Init /\ [][Next]_vars

(* ------------------- withRetry, invocation by invocation -------------- *)
\* A call withRetry(fn, label, n, d) where fn throws on its first k invocations,
\* or on every one.  The value fn returns is the number of the invocation that
\* returned it.
StartCall(k, always, n, d) ==
  [pc |-> "invoke", k |-> k, always |-> always, maxRetries |-> n, retries |-> n,
   delay |-> d, invocations |-> 0, logs |-> 0, waits |-> <<>>,
   result |-> [ok |-> FALSE, value |-> 0]]

DelayArgs == {DefaultDelay, 250}

InitRetry ==
  /\ store = [id \in IdStrs |-> "none"]
  /\ nMut = 0
  /\ sheet = <<>>
  /\ idToRow = NoIndex
  /\ client = 0
  /\ clientState = [k \in RunIds |-> "none"]
  /\ col = 0
  /\ runs = <<>>
  /\ timers = [d \in Delays |-> 0]
  /\ streams = [k \in RunIds |-> [state |-> "none", client |-> 0]]
  /\ feed = [k \in RunIds |-> <<>>]
  /\ handlers = <<>>
  /\ degraded = FALSE
  /\ legacy = NoProcess
  /\ snap = NoSnap
  /\ pure = NoApplication
  /\ \E n \in 0..MaxRetriesArg, d \in DelayArgs :
       \/ \E k \in 0..(MaxRetriesArg + 1) : wr = StartCall(k, FALSE, n, d)
       \/ wr = StartCall(0, TRUE, n, d)

\* Invocation number n of fn throws.
FnFails(n) == wr.always \/ n <= wr.k

\* try { return await fn() }
RetryInvokeOk ==
  /\ wr.pc = "invoke"
  /\ ~FnFails(wr.invocations + 1)
  /\ wr' = [wr EXCEPT !.invocations = @ + 1, !.pc = "returned",
                      !.result = [ok |-> TRUE, value |-> wr.invocations + 1]]
  /\ UNCHANGED << pipeline, legacy, snap, pure >>

\* catch (err): retries > 0, so console.warn and the timer of `delay` ms is set.
RetryInvokeFail ==
  /\ wr.pc = "invoke"
  /\ FnFails(wr.invocations + 1)
  /\ ~RetryExhausted(wr.retries)
  /\ wr' = [wr EXCEPT !.invocations = @ + 1, !.logs = @ + 1,
                      !.waits = Append(@, wr.delay), !.pc = "wait"]
  /\ UNCHANGED << pipeline, legacy, snap, pure >>

\* catch (err): retries <= 0, so console.error and return (undefined).
RetryGiveUp ==
  /\ wr.pc = "invoke"
  /\ FnFails(wr.invocations + 1)
  /\ RetryExhausted(wr.retries)
  /\ wr' = [wr EXCEPT !.invocations = @ + 1, !.logs = @ + 1, !.pc = "returned",
                      !.result = [ok |-> FALSE, value |-> 0]]
  /\ UNCHANGED << pipeline, legacy, snap, pure >>

\* The timer fires: return withRetry(fn, label, retries - 1, delay * 2)
RetryAgain ==
  /\ wr.pc = "wait"
  /\ wr' = [wr EXCEPT !.retries = RetriesAfterFailure(@),
                      !.delay = DelayAfterFailure(@), !.pc = "invoke"]
  /\ UNCHANGED << pipeline, legacy, snap, pure >>

NextRetry ==
  \/ RetryInvokeOk
  \/ RetryInvokeFail
  \/ RetryGiveUp
  \/ RetryAgain

SpecRetry == InitRetry /\ [][NextRetry]_vars

(* ------------------- the first version: main() of part_001 ------------ *)
\* One client, one run of main(), no withRetry, no Interakt; a failure of the
\* startup sequence or of the stream ends the process.
Running == legacy.state = "running"

\* process.exit(1)
Exit == legacy' = [state |-> "exited", code |-> 1]

InitLegacy ==
  /\ store \in [IdStrs -> {"none", NameOf.insert}]
  /\ nMut = 0
  /\ sheet \in InitialSheets
  /\ idToRow = NoIndex
  /\ client = 1
  /\ clientState = [k \in RunIds |-> IF k = 1 THEN "created" ELSE "none"]
  /\ col = 0
  /\ runs = << NewRun("connecting") >>
  /\ timers = [d \in Delays |-> 0]
  /\ streams = [k \in RunIds |-> [state |-> "none", client |-> 0]]
  /\ feed = [k \in RunIds |-> <<>>]
  /\ handlers = <<>>
  /\ degraded = FALSE
  /\ wr = NoCall
  /\ legacy = [state |-> "running", code |-> 0]
  /\ snap = NoSnap
  /\ pure = NoApplication

\* await client.connect() resolves; col = client.db(..).collection(..); the
\* header is written with values.update at A1.
LegacyConnect ==
  /\ Running
  /\ runs[1].pc = "connecting"
  /\ clientState' = [clientState EXCEPT ![1] = "connected"]
  /\ col' = 1
  /\ runs' = [runs EXCEPT ![1].pc = "header"]
  /\ UNCHANGED << store, nMut, sheet, idToRow, client, timers, streams, feed,
                  handlers, degraded, side >>

\* values.update at A1 with the header row resolves; buildIndexFromSheet awaits
\* values.get.
LegacyHeader ==
  /\ Running
  /\ runs[1].pc = "header"
  /\ sheet' = SheetWriteFromA1(sheet, << header >>)
  /\ runs' = [runs EXCEPT ![1].pc = "indexGet"]
  /\ UNCHANGED << store, nMut, idToRow, client, clientState, col, timers, streams,
                  feed, handlers, degraded, side >>

\* values.get resolves; the loop of buildIndexFromSheet fills the (empty) map;
\* col.watch and the two listeners.
LegacyIndex ==
  /\ Running
  /\ runs[1].pc = "indexGet"
  /\ idToRow' = buildIndexFromSheet(SheetGetData(sheet))
  /\ streams' = [streams EXCEPT ![1] = [state |-> "open", client |-> col]]
  /\ runs' = [runs EXCEPT ![1].pc = "watching"]
  /\ UNCHANGED << store, nMut, sheet, client, clientState, col, timers, feed,
                  handlers, degraded, side >>

\* connect, the header write or values.get rejects:
\*   main().catch((e) => { console.error(..); process.exit(1) })
LegacyStartupFail ==
  /\ Running
  /\ runs[1].pc \in {"connecting", "header", "indexGet"}
  /\ runs' = [runs EXCEPT ![1].pc = "failed"]
  /\ Exit
  /\ UNCHANGED << store, nMut, sheet, idToRow, client, clientState, col, timers,
                  streams, feed, handlers, degraded, wr, snap, pure >>

\* stream.on('error', (e) => { console.error(..); process.exit(1) })
LegacyStreamError ==
  /\ Running
  /\ streams[1].state = "open"
  /\ streams' = [streams EXCEPT ![1].state = "dead"]
  /\ feed' = [feed EXCEPT ![1] = <<>>]
  /\ Exit
  /\ UNCHANGED << store, nMut, sheet, idToRow, client, clientState, col, runs,
                  timers, handlers, degraded, wr, snap, pure >>

\* The listener of the first version up to its first await: an update reads
\* String(doc._id) from the document, which throws when the document is null;
\* the listener's catch logs it.
LegacyDispatch(s, ev, doc) ==
  IF ev.op \in {"update", "replace"} /\ doc = Null THEN Finished
  ELSE Dispatch(s, ev, doc)

LegacyDeliver(s) ==
  /\ Running
  /\ Watching(s)
  /\ feed[s] # <<>>
  /\ \E doc \in FullDocuments(Head(feed[s])) :
       handlers' = Append(handlers, LegacyDispatch(s, Head(feed[s]), doc))
  /\ feed' = [feed EXCEPT ![s] = Tail(@)]
  /\ UNCHANGED << store, nMut, sheet, idToRow, client, clientState, col, runs,
                  timers, streams, degraded, side >>

\* The sheet call of appendRow, updateRow or clearRow resolves (no withRetry).
LegacySinkOk(i) ==
  /\ Running
  /\ handlers[i].pc \in {"append", "update", "clear"}
  /\ \/ /\ handlers[i].pc = "append"
        /\ sheet' = SheetAppend(sheet, docToRow(handlers[i].doc))
        /\ \E resp \in {AppendPosition(sheet), Unparseable} :
             handlers' = [handlers EXCEPT ![i].pc = "appendResp", ![i].resp = resp,
                                          ![i].placed = AppendPosition(sheet),
                                          ![i].acted = TRUE]
     \/ /\ handlers[i].pc = "update"
        /\ sheet' = SheetSetRow(sheet, handlers[i].row, docToRow(handlers[i].doc))
        /\ handlers' = [handlers EXCEPT ![i] = Finished]
     \/ /\ handlers[i].pc = "clear"
        /\ sheet' = SheetSetRow(sheet, handlers[i].row, BlankRow)
        /\ handlers' = [handlers EXCEPT ![i].pc = "clearResp", ![i].acted = TRUE]
  /\ UNCHANGED << store, nMut, idToRow, client, clientState, col, runs, timers,
                  streams, feed, degraded, side >>

\* The sheet call rejects: the exception reaches the listener's catch.
LegacySinkFail(i) ==
  /\ Running
  /\ handlers[i].pc \in {"append", "update", "clear"}
  /\ handlers' = [handlers EXCEPT ![i] = Finished]
  /\ degraded' = TRUE
  /\ UNCHANGED << store, nMut, sheet, idToRow, client, clientState, col, runs,
                  timers, streams, feed, side >>

\* if (rowNumber) idToRow.set(String(doc._id), rowNumber), or idToRow.delete(id).
LegacyReturn(i) ==
  /\ Running
  /\ handlers[i].pc \in {"appendResp", "clearResp"}
  /\ idToRow' = IF handlers[i].pc = "clearResp"
                THEN [idToRow EXCEPT ![handlers[i].id] = 0]
                ELSE IF handlers[i].resp = Unparseable THEN idToRow
                ELSE [idToRow EXCEPT ![handlers[i].id] = handlers[i].resp]
  /\ handlers' = [handlers EXCEPT ![i] = Finished]
  /\ UNCHANGED << store, nMut, sheet, client, clientState, col, runs, timers,
                  streams, feed, degraded, side >>

NextLegacy ==
  \/ LegacyConnect
  \/ LegacyHeader
  \/ LegacyIndex
  \/ LegacyStartupFail
  \/ LegacyStreamError
  \/ \E id \in IdStrs : Running /\ StoreInsert(id)
  \/ \E id \in IdStrs, op \in {"update", "replace"} : Running /\ StoreUpdate(op, id)
  \/ \E id \in IdStrs : Running /\ StoreDelete(id)
  \/ \E s \in RunIds : LegacyDeliver(s)
  \/ \E i \in 1..Len(handlers) : LegacySinkOk(i)
  \/ \E i \in 1..Len(handlers) : LegacySinkFail(i)
  \/ \E i \in 1..Len(handlers) : LegacyReturn(i)

SpecLegacy == InitLegacy /\ [][NextLegacy]_vars

(* ------------- the stream delivers an event a second time ------------- *)
\* At-least-once delivery: after the listener call for an event has returned,
\* the stream hands the same event, with the same document, to the listener
\* again.  The process starts bootstrapped: header and one row per document,
\* idToRow built from them, one stream open.
InitRedeliver ==
  /\ store \in [IdStrs -> {"none", NameOf.insert}]
  /\ nMut = 0
  /\ sheet = ExportValues(FindAll(store, 1))
  /\ idToRow = buildIndexFromSheet(SheetGetData(sheet))
  /\ client = 1
  /\ clientState = [k \in RunIds |-> IF k = 1 THEN "connected" ELSE "none"]
  /\ col = 1
  /\ runs = << [NewRun("watching") EXCEPT !.docs = FindAll(store, 1)] >>
  /\ timers = [d \in Delays |-> 0]
  /\ streams = [k \in RunIds |->
                  IF k = 1 THEN [state |-> "open", client |-> 1]
                  ELSE [state |-> "none", client |-> 0]]
  /\ feed = [k \in RunIds |-> <<>>]
  /\ handlers = <<>>
  /\ degraded = FALSE
  /\ wr = NoCall
  /\ legacy = NoProcess
  /\ snap = NoSnap
  /\ pure = NoApplication

NoneInFlight == \A i \in 1..Len(handlers) : ~InFlight(i)

\* The first delivery of the event at the head of the feed.
DeliverFirst(s) ==
  /\ snap.phase = "none"
  /\ NoneInFlight
  /\ Watching(s)
  /\ feed[s] # <<>>
  /\ \E doc \in FullDocuments(Head(feed[s])) :
       /\ handlers' = Append(handlers, Dispatch(s, Head(feed[s]), doc))
       /\ snap' = [snap EXCEPT !.phase = "first", !.ev = Head(feed[s]), !.doc = doc]
  /\ feed' = [feed EXCEPT ![s] = Tail(@)]
  /\ UNCHANGED << store, nMut, sheet, idToRow, client, clientState, col, runs,
                  timers, streams, degraded, wr, legacy, pure >>

\* The listener call has returned; the same event is delivered again.  snap
\* keeps the sheet and idToRow as the first handling left them.
Redeliver(s) ==
  /\ snap.phase = "first"
  /\ NoneInFlight
  /\ Watching(s)
  /\ handlers' = Append(handlers, Dispatch(s, snap.ev, snap.doc))
  /\ snap' = [snap EXCEPT !.phase = "again", !.sheet = sheet, !.idToRow = idToRow]
  /\ UNCHANGED << store, nMut, sheet, idToRow, client, clientState, col, runs,
                  timers, streams, feed, degraded, wr, legacy, pure >>

\* The second listener call has returned; the stream goes on with the next event.
RedeliveryOver ==
  /\ snap.phase = "again"
  /\ NoneInFlight
  /\ snap' = NoSnap
  /\ UNCHANGED << pipeline, wr, legacy, pure >>

NextRedeliver ==
  \/ \E id \in IdStrs : StoreInsert(id)
  \/ \E id \in IdStrs, op \in {"update", "replace"} : StoreUpdate(op, id)
  \/ \E id \in IdStrs : StoreDelete(id)
  \/ \E s \in RunIds : DeliverFirst(s)
  \/ \E s \in RunIds : Redeliver(s)
  \/ RedeliveryOver
  \/ \E i \in 1..Len(handlers) : AppendApply(i)
  \/ \E i \in 1..Len(handlers) : AppendExhausted(i)
  \/ \E i \in 1..Len(handlers) : AppendReturn(i)
  \/ \E i \in 1..Len(handlers) : UpdateApply(i)
  \/ \E i \in 1..Len(handlers) : UpdateExhausted(i)
  \/ \E i \in 1..Len(handlers) : ClearApply(i)
  \/ \E i \in 1..Len(handlers) : ClearExhausted(i)
  \/ \E i \in 1..Len(handlers) : ClearReturn(i)
  \/ \E i \in 1..Len(handlers) : InteraktDone(i)
  \/ \E i \in 1..Len(handlers) : HandlerCatch(i)

SpecRedeliver == InitRedeliver /\ [][NextRedeliver]_vars

(* ------------------------------- toCol -------------------------------- *)
MaxCol == 750

\* String.fromCharCode(65 + r), r in 0..25.  A label is the sequence of its
\* letters.
Alphabet ==
  << "A", "B", "C", "D", "E", "F", "G", "H", "I", "J", "K", "L", "M",
     "N", "O", "P", "Q", "R", "S", "T", "U", "V", "W", "X", "Y", "Z" >>
Letter(r) == Alphabet[r + 1]

\* Ordinary base 26 with A as the zero digit: r = n % 26, n = floor(n / 26).
RECURSIVE toColPlain(_)
toColPlain(n) ==
  IF n > 0 THEN toColPlain(n \div 26) \o << Letter(n % 26) >> ELSE <<>>

\* while (n > 0) { r = (n - 1) % 26; s = letter(r) + s; n = floor((n - 1) / 26) }
RECURSIVE toCol(_)
toCol(n) ==
  IF n > 0 THEN toCol((n - 1) \div 26) \o << Letter((n - 1) % 26) >> ELSE <<>>

InitToCol ==
  /\ pure \in {[fn |-> "toCol", n |-> n, done |-> FALSE, out |-> <<>>] : n \in 1..MaxCol}
  /\ store = [id \in IdStrs |-> "none"]
  /\ nMut = 0
  /\ sheet = <<>>
  /\ idToRow = NoIndex
  /\ client = 0
  /\ clientState = [k \in RunIds |-> "none"]
  /\ col = 0
  /\ runs = <<>>
  /\ timers = [d \in Delays |-> 0]
  /\ streams = [k \in RunIds |-> [state |-> "none", client |-> 0]]
  /\ feed = [k \in RunIds |-> <<>>]
  /\ handlers = <<>>
  /\ degraded = FALSE
  /\ wr = NoCall
  /\ legacy = NoProcess
  /\ snap = NoSnap

\* toCol(n) is called and returns.
ToColApply ==
  /\ pure.fn = "toCol"
  /\ ~pure.done
  /\ pure' = [pure EXCEPT !.done = TRUE, !.out = toCol(pure.n)]
  /\ UNCHANGED << pipeline, wr, legacy, snap >>

SpecToCol == InitToCol /\ [][ToColApply]_vars

(* ------------------------------ docToRow ------------------------------ *)
\* The documents docToRow is applied to: null, and documents in which each
\* field is absent, null or a value of a kind the store can hold.
Absent == [t |-> "absent", s |-> ""]
Keys == {COLUMNS[i].key : i \in 1..Len(COLUMNS)}
FieldChoices(key) ==
  IF key = "_id" THEN {Absent, NullVal, ObjectId("e1")}
  ELSE IF key = "fullName" THEN {Absent, NullVal, Str("n1")}
  ELSE IF key = "createdAt"
       THEN {Absent, NullVal, DateVal("2024-01-01T00:00:00.000Z"), InvalidDate}
  ELSE IF key = "subject" THEN {Absent, Str("maths"), ObjectId("e2"), BadToString}
  ELSE {Absent, Str("x")}

DocOf(f) == [k \in {k \in Keys : f[k] # Absent} |-> f[k]]
Documents ==
  {Null} \cup
  {DocOf(f) : f \in [_id : FieldChoices("_id"), fullName : FieldChoices("fullName"),
                     email : FieldChoices("email"), mobile : FieldChoices("mobile"),
                     createdAt : FieldChoices("createdAt"),
                     grade : FieldChoices("grade"), subject : FieldChoices("subject")]}

InitDocToRow ==
  /\ pure \in {[fn |-> "docToRow", doc |-> d, done |-> FALSE, raised |-> FALSE,
                out |-> <<>>] : d \in Documents}
  /\ store = [id \in IdStrs |-> "none"]
  /\ nMut = 0
  /\ sheet = <<>>
  /\ idToRow = NoIndex
  /\ client = 0
  /\ clientState = [k \in RunIds |-> "none"]
  /\ col = 0
  /\ runs = <<>>
  /\ timers = [d \in Delays |-> 0]
  /\ streams = [k \in RunIds |-> [state |-> "none", client |-> 0]]
  /\ feed = [k \in RunIds |-> <<>>]
  /\ handlers = <<>>
  /\ degraded = FALSE
  /\ wr = NoCall
  /\ legacy = NoProcess
  /\ snap = NoSnap

\* docToRow(doc) returns its row.
DocToRowReturn ==
  /\ pure.fn = "docToRow"
  /\ ~pure.done
  /\ ~docToRowRaises(pure.doc)
  /\ pure' = [pure EXCEPT !.done = TRUE, !.out = docToRow(pure.doc)]
  /\ UNCHANGED << pipeline, wr, legacy, snap >>

\* The callback of COLUMNS.map throws: docToRow returns nothing.
DocToRowThrow ==
  /\ pure.fn = "docToRow"
  /\ ~pure.done
  /\ docToRowRaises(pure.doc)
  /\ pure' = [pure EXCEPT !.done = TRUE, !.raised = TRUE]
  /\ UNCHANGED << pipeline, wr, legacy, snap >>

NextDocToRow == DocToRowReturn \/ DocToRowThrow

SpecDocToRow == InitDocToRow /\ [][NextDocToRow]_vars

(* --------------------------- the HTTP servers ------------------------- *)
\* The three servers: the express app of realtimeSync.js (and part_000), the
\* keep-alive server of the sync.js variant, the one of part_001.
Servers == {"express", "keepAlive", "legacyKeepAlive"}
Methods == {"GET", "POST"}
Paths == {"/", "/airtable-webhook", "/other"}
\* The request body: none, a JSON object whose payloads is a list of events, a
\* JSON object whose payloads cannot be iterated, text that is not JSON.
Bodies == {"none", "payloads", "notIterable", "badJson"}
\* What the sync pipeline is doing while the request arrives.
SyncStates == {"starting", "watching", "waitingToRestart", "sinkDown"}

HealthText ==
  [express |-> "MongoDB -> Google Sheets & Airtable -> Interakt sync running",
   keepAlive |-> "MongoDB -> Google Sheets & Interakt sync is running",
   legacyKeepAlive |-> "Running MongoDB -> Google Sheets Sync Service"]

\* http.createServer((req, res) => { res.writeHead(200, ..); res.end(text) })
KeepAliveResponse(server, req) == [status |-> 200, body |-> HealthText[server]]

\* The express app: express.json() rejects a body that is not JSON; GET / is
\* the health check; POST /airtable-webhook answers ok, or error when its loop
\* throws; every other request falls through to express's 404.
ExpressResponse(req) ==
  IF req.body = "badJson" THEN [status |-> 400, body |-> "Bad Request"]
  ELSE IF req.method = "GET" /\ req.path = "/"
       THEN [status |-> 200, body |-> HealthText.express]
  ELSE IF req.method = "POST" /\ req.path = "/airtable-webhook"
       THEN IF req.body = "notIterable" THEN [status |-> 500, body |-> "error"]
            ELSE [status |-> 200, body |-> "ok"]
  ELSE [status |-> 404, body |-> "Not Found"]

NoResponse == [status |-> 0, body |-> ""]

InitHttp ==
  /\ pure \in {[fn |-> "http", server |-> sv, sync |-> sy, done |-> FALSE,
                req |-> [method |-> m, path |-> p, body |-> b], res |-> NoResponse] :
                  sv \in Servers, sy \in SyncStates, m \in Methods, p \in Paths,
                  b \in Bodies}
  /\ store = [id \in IdStrs |-> "none"]
  /\ nMut = 0
  /\ sheet = <<>>
  /\ idToRow = NoIndex
  /\ client = 0
  /\ clientState = [k \in RunIds |-> "none"]
  /\ col = 0
  /\ runs = <<>>
  /\ timers = [d \in Delays |-> 0]
  /\ streams = [k \in RunIds |-> [state |-> "none", client |-> 0]]
  /\ feed = [k \in RunIds |-> <<>>]
  /\ handlers = <<>>
  /\ degraded = FALSE
  /\ wr = NoCall
  /\ legacy = NoProcess
  /\ snap = NoSnap

ExpressRespond ==
  /\ pure.fn = "http"
  /\ pure.server = "express"
  /\ ~pure.done
  /\ pure' = [pure EXCEPT !.done = TRUE, !.res = ExpressResponse(pure.req)]
  /\ UNCHANGED << pipeline, wr, legacy, snap >>

KeepAliveRespond ==
  /\ pure.fn = "http"
  /\ pure.server \in {"keepAlive", "legacyKeepAlive"}
  /\ ~pure.done
  /\ pure' = [pure EXCEPT !.done = TRUE, !.res = KeepAliveResponse(pure.server, pure.req)]
  /\ UNCHANGED << pipeline, wr, legacy, snap >>

NextHttp == ExpressRespond \/ KeepAliveRespond

SpecHttp == InitHttp /\ [][NextHttp]_vars

(* ------------------------- buildIndexFromSheet ------------------------ *)
MaxRows == 3

\* The rows values.get may return: a blank row in the middle of the data, rows
\* of an entity, a row with data but no id.
ScannedRow == { <<>>, << "e1", "n1" >>, << "e2", "n1" >>, << "", "n1" >> }
ScannedRows == UNION {[1..n -> ScannedRow] : n \in 0..MaxRows}

\* buildIndexFromSheet is called with some map left by an earlier run.
InitIndex ==
  /\ idToRow \in [IdStrs -> {0, 2, 5}]
  /\ pure \in {[fn |-> "buildIndexFromSheet", rows |-> r, before |-> idToRow,
                done |-> FALSE] : r \in ScannedRows}
  /\ store = [id \in IdStrs |-> "none"]
  /\ nMut = 0
  /\ sheet = <<>>
  /\ client = 0
  /\ clientState = [k \in RunIds |-> "none"]
  /\ col = 0
  /\ runs = <<>>
  /\ timers = [d \in Delays |-> 0]
  /\ streams = [k \in RunIds |-> [state |-> "none", client |-> 0]]
  /\ feed = [k \in RunIds |-> <<>>]
  /\ handlers = <<>>
  /\ degraded = FALSE
  /\ wr = NoCall
  /\ legacy = NoProcess
  /\ snap = NoSnap

\* idToRow.clear() and the loop over the rows read.
IndexApply ==
  /\ pure.fn = "buildIndexFromSheet"
  /\ ~pure.done
  /\ idToRow' = buildIndexFromSheet(pure.rows)
  /\ pure' = [pure EXCEPT !.done = TRUE]
  /\ UNCHANGED << store, nMut, sheet, client, clientState, col, runs, timers,
                  streams, feed, handlers, degraded, wr, legacy, snap >>

SpecIndex == InitIndex /\ [][IndexApply]_vars

(* ------------------- the row of a deleted entity ---------------------- *)
\* The bootstrapped process handling its events one after the other.  snap
\* keeps the first delete event dispatched for an indexed entity, with idToRow
\* as it was then: the row of the entity is snap.idToRow[snap.ev.id].
DeliverDelete(s) ==
  /\ snap.phase = "none"
  /\ NoneInFlight
  /\ Watching(s)
  /\ feed[s] # <<>>
  /\ Head(feed[s]).op = "delete"
  /\ idToRow[Head(feed[s]).id] # 0
  /\ handlers' = Append(handlers, Dispatch(s, Head(feed[s]), Null))
  /\ snap' = [snap EXCEPT !.phase = "deleted", !.ev = Head(feed[s]),
                          !.idToRow = idToRow]
  /\ feed' = [feed EXCEPT ![s] = Tail(@)]
  /\ UNCHANGED << store, nMut, sheet, idToRow, client, clientState, col, runs,
                  timers, streams, degraded, wr, legacy, pure >>

DeliverInTurn(s) == NoneInFlight /\ Deliver(s)

NextDelete ==
  \/ \E id \in IdStrs : StoreInsert(id)
  \/ \E id \in IdStrs, op \in {"update", "replace"} : StoreUpdate(op, id)
  \/ \E id \in IdStrs : StoreDelete(id)
  \/ \E s \in RunIds : DeliverDelete(s)
  \/ \E s \in RunIds : DeliverInTurn(s)
  \/ \E i \in 1..Len(handlers) : AppendApply(i)
  \/ \E i \in 1..Len(handlers) : AppendExhausted(i)
  \/ \E i \in 1..Len(handlers) : AppendReturn(i)
  \/ \E i \in 1..Len(handlers) : UpdateApply(i)
  \/ \E i \in 1..Len(handlers) : UpdateExhausted(i)
  \/ \E i \in 1..Len(handlers) : ClearApply(i)
  \/ \E i \in 1..Len(handlers) : ClearExhausted(i)
  \/ \E i \in 1..Len(handlers) : ClearReturn(i)
  \/ \E i \in 1..Len(handlers) : InteraktDone(i)
  \/ \E i \in 1..Len(handlers) : HandlerCatch(i)

SpecDelete == InitRedeliver /\ [][NextDelete]_vars

(* ------------------- startSync of the sync.js variant ----------------- *)
MaxRuns == 8

\* The module is loaded and startSync() is called: client is undefined, the
\* store and the sheet are whatever they are.
InitSyncJs ==
  /\ store \in [IdStrs -> {"none", NameOf.insert}]
  /\ nMut = 0
  /\ sheet \in InitialSheets
  /\ idToRow = NoIndex
  /\ client = 0
  /\ clientState = [k \in RunIds |-> "none"]
  /\ col = 0
  /\ runs = << NewRun("start") >>
  /\ timers = [d \in Delays |-> 0]
  /\ streams = [k \in RunIds |-> [state |-> "none", client |-> 0]]
  /\ feed = [k \in RunIds |-> <<>>]
  /\ handlers = <<>>
  /\ degraded = FALSE
  /\ wr = NoCall
  /\ legacy = NoProcess
  /\ snap = NoSnap
  /\ pure = NoApplication

\* The first statement of the try block, `for (const doc of docs)`, reads docs,
\* which the same block declares further down with const: the read throws a
\* ReferenceError, and the catch logs it and sets the 15 s timer.
SyncJsStart(k) ==
  /\ runs[k].pc = "start"
  /\ StartupCatch(k)
  /\ UNCHANGED << store, nMut, sheet, idToRow, client, clientState, col, streams,
                  feed, handlers, degraded, side >>

\* The timer fires: startSync() is called again.
SyncJsTimerFire(d) ==
  /\ timers[d] > 0
  /\ Len(runs) < MaxRuns
  /\ timers' = [timers EXCEPT ![d] = @ - 1]
  /\ runs' = Append(runs, NewRun("start"))
  /\ UNCHANGED << store, nMut, sheet, idToRow, client, clientState, col, streams,
                  feed, handlers, degraded, side >>

NextSyncJs ==
  \/ \E k \in 1..Len(runs) : SyncJsStart(k)
  \/ \E d \in Delays : SyncJsTimerFire(d)

SpecSyncJs == InitSyncJs /\ [][NextSyncJs]_vars

(* ---------------------- syncToInterakt (part_000) --------------------- *)
\* Field values of a record: absent, a string (its characters) or a number
\* (its decimal digits).
NoField == [t |-> "absent", chars |-> <<>>]
Text(chars) == [t |-> "str", chars |-> chars]
Number(chars) == [t |-> "num", chars |-> chars]

\* What || takes for true: a non-empty string, a number other than 0.
Truthy(v) ==
  \/ v.t = "str" /\ v.chars # <<>>
  \/ v.t = "num" /\ v.chars # <<"0">>

PhoneKeys ==
  <<"phoneNumber", "Student Contact Number", "contactNumber", "phone", "mobile",
    "studentContactNumber", "Phone Number">>
CodeKeys == <<"countryCode", "Country Code">>

RECURSIVE FirstTruthy(_, _)
\* a[k1] || a[k2] || ... over the keys in order; the last operand when none is
\* truthy, which here is falsy too.
FirstTruthy(keys, fields) ==
  IF keys = <<>> THEN NoField
  ELSE IF Truthy(fields[Head(keys)]) THEN fields[Head(keys)]
       ELSE FirstTruthy(Tail(keys), fields)

DigitChars == {"0", "1", "2", "3", "4", "5", "6", "7", "8", "9"}
IsDigit(c) == c \in DigitChars
KeptChar(c) == c \in DigitChars \cup {"+"}
\* String(phoneNumber).replace(/[^\d+]/g, '')
CleanPhone(chars) == SelectSeq(chars, KeptChar)
StartsWithPlus(chars) == Len(chars) > 0 /\ chars[1] = "+"
\* phoneNumber.replace(/\D/g, '').length
DigitCount(chars) == Len(SelectSeq(chars, IsDigit))
MinDigits == 10
DefaultCountryCode == Text(<<"+", "9", "1">>)

\* recordData.countryCode || recordData['Country Code'] || '+91'
CountryCodeOf(rec) ==
  IF Truthy(FirstTruthy(CodeKeys, rec.codes)) THEN FirstTruthy(CodeKeys, rec.codes)
  ELSE DefaultCountryCode

\* countryCode.startsWith is not a function when the code is a number.
CountryCodeRaises(rec) ==
  /\ ~StartsWithPlus(CleanPhone(FirstTruthy(PhoneKeys, rec.phones).chars))
  /\ CountryCodeOf(rec).t # "str"

\* The phone number after cleaning and prefixing.
NormalizedPhone(rec) ==
  LET cleaned == CleanPhone(FirstTruthy(PhoneKeys, rec.phones).chars)
      code == CountryCodeOf(rec).chars
  IN IF StartsWithPlus(cleaned) THEN cleaned
     ELSE (IF StartsWithPlus(code) THEN code ELSE <<"+">> \o code) \o cleaned

InteraktTag(source) == IF source = "Airtable" THEN "Demo Booking Form" ELSE "Leads"

\* String(recordData._id || recordData.recordId || `${source}-${Date.now()}`)
InteraktUserId(rec, source) ==
  IF Truthy(rec._id) THEN rec._id.chars
  ELSE IF Truthy(rec.recordId) THEN rec.recordId.chars
       ELSE <<source, "-", "now">>

NoRequest == [phoneNumber |-> <<>>, userId |-> <<>>, tag |-> ""]
InteraktPayload(rec, source) ==
  [phoneNumber |-> NormalizedPhone(rec), userId |-> InteraktUserId(rec, source),
   tag |-> InteraktTag(source)]

\* How far the body of syncToInterakt gets for a record that is not null.
InteraktBranch(rec) ==
  IF ~Truthy(FirstTruthy(PhoneKeys, rec.phones)) THEN "noPhone"
  ELSE IF CountryCodeRaises(rec) THEN "caught"
       ELSE IF DigitCount(NormalizedPhone(rec)) < MinDigits THEN "invalid"
            ELSE "post"

\* The records syncToInterakt is called with: null (the full document of an
\* update whose entity is gone), and records with some of the phone and
\* country-code fields set.
MaxPhoneDigits == 10
Nines(n) == [i \in 1..n |-> "9"]
DigitLens == {3} \cup ((MaxPhoneDigits - 3)..MaxPhoneDigits)
PhoneSamples ==
  {NoField, Text(<<>>), Number(<<"0">>), Number(Nines(MaxPhoneDigits))} \cup
  UNION {{Text(Nines(n)),
          Text(<<"+">> \o Nines(n)),
          Text(<<" ", "+">> \o Nines(n)),
          Text(<<"9", "-">> \o Nines(n - 1)),
          Text(<<"9", "+">> \o Nines(n - 1))} : n \in DigitLens}
CodeSamples ==
  {NoField, Text(<<"+", "1">>), Text(<<"9", "1">>), Number(<<"9", "1">>)}
NullRecord == [isNull |-> TRUE]
PhonesOf(first, v1, v2) ==
  [k \in {PhoneKeys[i] : i \in 1..Len(PhoneKeys)} |->
     IF k = first THEN v1 ELSE IF k = "mobile" THEN v2 ELSE NoField]
Records ==
  {NullRecord} \cup
  {[isNull |-> FALSE, phones |-> PhonesOf(first, v1, v2),
    codes |-> [k \in {"countryCode", "Country Code"} |->
                 IF k = ck THEN cv ELSE NoField],
    _id |-> id, recordId |-> NoField] :
     first \in {"phoneNumber", "Phone Number"}, v1 \in PhoneSamples,
     v2 \in {NoField, Text(Nines(MaxPhoneDigits))},
     ck \in {"countryCode", "Country Code"}, cv \in CodeSamples,
     id \in {NoField, Text(<<"e1">>)}}
Sources == {"GoogleSheet", "Airtable"}

InitInterakt ==
  /\ pure \in {[fn |-> "syncToInterakt", rec |-> r, source |-> s, done |-> FALSE,
                sent |-> NoRequest, posted |-> FALSE, raised |-> FALSE] :
                 r \in Records, s \in Sources}
  /\ pure.rec.isNull => pure.source = "GoogleSheet"
  /\ store = [id \in IdStrs |-> "none"]
  /\ nMut = 0
  /\ sheet = <<>>
  /\ idToRow = NoIndex
  /\ client = 0
  /\ clientState = [k \in RunIds |-> "none"]
  /\ col = 0
  /\ runs = <<>>
  /\ timers = [d \in Delays |-> 0]
  /\ streams = [k \in RunIds |-> [state |-> "none", client |-> 0]]
  /\ feed = [k \in RunIds |-> <<>>]
  /\ handlers = <<>>
  /\ degraded = FALSE
  /\ wr = NoCall
  /\ legacy = NoProcess
  /\ snap = NoSnap

InteraktCalled == pure.fn = "syncToInterakt" /\ ~pure.done

\* recordData is null: reading recordData.phoneNumber throws inside try, and the
\* catch block reads recordData._id, which throws out of the function.
InteraktRaise ==
  /\ InteraktCalled
  /\ pure.rec.isNull
  /\ pure' = [pure EXCEPT !.done = TRUE, !.raised = TRUE]
  /\ UNCHANGED << pipeline, wr, legacy, snap >>

\* No phone number, or fewer than MinDigits digits: log and return.
InteraktSkip ==
  /\ InteraktCalled
  /\ ~pure.rec.isNull
  /\ InteraktBranch(pure.rec) \in {"noPhone", "invalid"}
  /\ pure' = [pure EXCEPT !.done = TRUE]
  /\ UNCHANGED << pipeline, wr, legacy, snap >>

\* countryCode.startsWith throws: the catch block logs and the function returns.
InteraktCaught ==
  /\ InteraktCalled
  /\ ~pure.rec.isNull
  /\ InteraktBranch(pure.rec) = "caught"
  /\ pure' = [pure EXCEPT !.done = TRUE]
  /\ UNCHANGED << pipeline, wr, legacy, snap >>

\* axios.post is called with the payload and answers.
InteraktPostOk ==
  /\ InteraktCalled
  /\ ~pure.rec.isNull
  /\ InteraktBranch(pure.rec) = "post"
  /\ pure' = [pure EXCEPT !.done = TRUE, !.posted = TRUE,
                          !.sent = InteraktPayload(pure.rec, pure.source)]
  /\ UNCHANGED << pipeline, wr, legacy, snap >>

\* axios.post is called with the payload and rejects: the catch block logs.
InteraktPostFail ==
  /\ InteraktCalled
  /\ ~pure.rec.isNull
  /\ InteraktBranch(pure.rec) = "post"
  /\ pure' = [pure EXCEPT !.done = TRUE, !.posted = TRUE,
                          !.sent = InteraktPayload(pure.rec, pure.source)]
  /\ degraded' = TRUE
  /\ UNCHANGED << store, nMut, sheet, idToRow, client, clientState, col, runs,
                  timers, streams, feed, handlers, wr, legacy, snap >>

NextInterakt ==
  \/ InteraktRaise
  \/ InteraktSkip
  \/ InteraktCaught
  \/ InteraktPostOk
  \/ InteraktPostFail

SpecInterakt == InitInterakt /\ [][NextInterakt]_vars

(* ---------------------- the Airtable webhook (part_000) --------------- *)
\* The functions part_000 declares; an identifier outside them is bound nowhere
\* and calling it throws a ReferenceError.
Declared ==
  {"rowRangeA1", "buildIndexFromSheet", "withRetry", "syncToInterakt",
   "appendRow", "updateRow", "clearRow", "watchChanges", "startSync"}
WebhookCallee == "syncToInteraktAirtable"

ConfiguredTable == "tbltM2TJ4yDQOpbdW"
TableIds == {ConfiguredTable, "tblOther", ""}
MaxWebhookEvents == 2
MaxCreated == 2
CreatedRecord == {[id |-> "rec1", fields |-> "f1"], [id |-> "rec2", fields |-> "f2"]}
SeqsUpTo(S, n) == UNION {[1..k -> S] : k \in 0..n}
WebhookEvents ==
  {[tableId |-> t, created |-> c] :
     t \in TableIds, c \in SeqsUpTo(CreatedRecord, MaxCreated)}
WebhookPayloads == SeqsUpTo(WebhookEvents, MaxWebhookEvents)

\* { recordId: record.id, ...recordFields, createdAt: ... }
AirtableRecord(record) == [recordId |-> record.id, fields |-> record.fields]

InitWebhook ==
  /\ pure \in {[fn |-> "webhook", payloads |-> p, e |-> 1, r |-> 1,
                pushes |-> <<>>, processed |-> <<>>, errors |-> 0, status |-> 0] :
                 p \in WebhookPayloads}
  /\ store = [id \in IdStrs |-> "none"]
  /\ nMut = 0
  /\ sheet = <<>>
  /\ idToRow = NoIndex
  /\ client = 0
  /\ clientState = [k \in RunIds |-> "none"]
  /\ col = 0
  /\ runs = <<>>
  /\ timers = [d \in Delays |-> 0]
  /\ streams = [k \in RunIds |-> [state |-> "none", client |-> 0]]
  /\ feed = [k \in RunIds |-> <<>>]
  /\ handlers = <<>>
  /\ degraded = FALSE
  /\ wr = NoCall
  /\ legacy = NoProcess
  /\ snap = NoSnap

WebhookRunning == pure.fn = "webhook" /\ pure.status = 0
WebhookAtEvent == WebhookRunning /\ pure.e <= Len(pure.payloads)

\* if (tableId !== 'tbltM2TJ4yDQOpbdW') continue;
WebhookSkipEvent ==
  /\ WebhookAtEvent
  /\ pure.payloads[pure.e].tableId # ConfiguredTable
  /\ pure' = [pure EXCEPT !.e = @ + 1, !.r = 1]
  /\ UNCHANGED << pipeline, wr, legacy, snap >>

\* One turn of the loop over createdRecords: the record is made and the callee
\* is called with it; a throw is caught by the try around the turn.
WebhookRecord ==
  /\ WebhookAtEvent
  /\ pure.payloads[pure.e].tableId = ConfiguredTable
  /\ pure.r <= Len(pure.payloads[pure.e].created)
  /\ LET record == pure.payloads[pure.e].created[pure.r]
     IN pure' =
          IF WebhookCallee \in Declared
          THEN [pure EXCEPT !.r = @ + 1,
                            !.processed = Append(@, record.id),
                            !.pushes = Append(@, AirtableRecord(record))]
          ELSE [pure EXCEPT !.r = @ + 1,
                            !.processed = Append(@, record.id),
                            !.errors = @ + 1]
  /\ UNCHANGED << pipeline, wr, legacy, snap >>

\* The records of the event are used up.
WebhookNextEvent ==
  /\ WebhookAtEvent
  /\ pure.payloads[pure.e].tableId = ConfiguredTable
  /\ pure.r > Len(pure.payloads[pure.e].created)
  /\ pure' = [pure EXCEPT !.e = @ + 1, !.r = 1]
  /\ UNCHANGED << pipeline, wr, legacy, snap >>

\* res.status(200).json({ success: true })
WebhookRespond ==
  /\ WebhookRunning
  /\ pure.e > Len(pure.payloads)
  /\ pure' = [pure EXCEPT !.status = 200]
  /\ UNCHANGED << pipeline, wr, legacy, snap >>

NextWebhook ==
  \/ WebhookSkipEvent
  \/ WebhookRecord
  \/ WebhookNextEvent
  \/ WebhookRespond

SpecWebhook == InitWebhook /\ [][NextWebhook]_vars

(* ------------------------------ rowRangeA1 ---------------------------- *)
\* SHEET_NAME of the environment, by default 'MongoSheet'.
SHEET_NAME == "MongoSheet"

DigitText == <<"0", "1", "2", "3", "4", "5", "6", "7", "8", "9">>
RECURSIVE Decimal(_)
\* `${rowNumber}`: the decimal digits of a non-negative integer.
Decimal(n) ==
  IF n < 10 THEN <<DigitText[n + 1]>>
  ELSE Decimal(n \div 10) \o <<DigitText[(n % 10) + 1]>>

\* rowRangeA1 whose range ends one row further down.
rowRangeA1TwoRows(rowNumber) ==
  [sheet |-> SHEET_NAME,
   a1 |-> <<"A">> \o Decimal(rowNumber) \o <<":">> \o toCol(Len(COLUMNS))
            \o Decimal(rowNumber + 1)]

\* `${SHEET_NAME}!A${rowNumber}:${toCol(COLUMNS.length)}${rowNumber}`: the
\* sheet name, and the characters after the '!'.
rowRangeA1(rowNumber) ==
  [sheet |-> SHEET_NAME,
   a1 |-> <<"A">> \o Decimal(rowNumber) \o <<":">> \o toCol(Len(COLUMNS))
            \o Decimal(rowNumber)]

MaxRowNumber == 60
NoRange == [sheet |-> "", a1 |-> <<>>]

InitRowRange ==
  /\ pure \in {[fn |-> "rowRangeA1", rowNumber |-> n, done |-> FALSE,
                out |-> NoRange] : n \in 1..MaxRowNumber}
  /\ store = [id \in IdStrs |-> "none"]
  /\ nMut = 0
  /\ sheet = <<>>
  /\ idToRow = NoIndex
  /\ client = 0
  /\ clientState = [k \in RunIds |-> "none"]
  /\ col = 0
  /\ runs = <<>>
  /\ timers = [d \in Delays |-> 0]
  /\ streams = [k \in RunIds |-> [state |-> "none", client |-> 0]]
  /\ feed = [k \in RunIds |-> <<>>]
  /\ handlers = <<>>
  /\ degraded = FALSE
  /\ wr = NoCall
  /\ legacy = NoProcess
  /\ snap = NoSnap

\* rowRangeA1(rowNumber) is called and returns.
RowRangeApply ==
  /\ pure.fn = "rowRangeA1"
  /\ ~pure.done
  /\ pure' = [pure EXCEPT !.done = TRUE, !.out = rowRangeA1(pure.rowNumber)]
  /\ UNCHANGED << pipeline, wr, legacy, snap >>

SpecRowRange == InitRowRange /\ [][RowRangeApply]_vars

(* ------------------------------ properties ---------------------------- *)
UpdateOps == {"update", "replace"}

\* This step is a step of handler i.
StepOf(i) == i \in 1..Len(handlers) /\ handlers'[i] # handlers[i]

\* This step dispatches the event at the head of stream s's feed.
Delivers(s) ==
  /\ feed[s] # <<>>
  /\ feed'[s] = Tail(feed[s])
  /\ Len(handlers') = Len(handlers) + 1

\* Row r holds the same cells before and after the step.
SameRow(r) == RowAt(sheet', r) = RowAt(sheet, r)
Rows == 1..(Larger(Len(sheet), Len(sheet')) + 1)

\* The first run's stream is up, nothing restarted, every event was delivered
\* and every handler has returned.
Quiescent ==
  /\ Len(runs) = 1
  /\ runs[1].pc = "watching"
  /\ streams[1].state = "open"
  /\ \A d \in Delays : timers[d] = 0
  /\ \A s \in RunIds : feed[s] = <<>>
  /\ \A i \in 1..Len(handlers) : ~InFlight(i)

\* Each entity of the store has exactly one row, which holds docToRow of its
\* document and is the row idToRow gives it; no other row holds data.
Mirror ==
  /\ \A id \in IdStrs :
       store[id] # "none" =>
         /\ idToRow[id] \in 2..Len(sheet)
         /\ sheet[idToRow[id]] = docToRow(MkDoc(id, store[id]))
         /\ \A q \in 2..Len(sheet) : IdCell(sheet[q]) = id => q = idToRow[id]
  /\ \A q \in 2..Len(sheet) :
       ~IsBlank(sheet[q]) =>
         \E id \in IdStrs : store[id] # "none" /\ idToRow[id] = q

\* C1: with no sink invocation ever failing, every append response carrying a
\* row number and no restart, once every delivered event's handler has
\* returned the sheet mirrors the store.
C1_QuiescentMirror == (Quiescent /\ ~degraded) => Mirror

\* C2: of two events of one entity, the handler of the later one does not act
\* on the sheet or the index before the handler of the earlier one is done
\* acting: no step of an earlier handler changes the sheet or the index once a
\* later handler of the same entity has acted.
C2_PerEntityOrder ==
  [][\A i, j \in 1..Len(handlers) :
       (i < j /\ InFlight(i) /\ InFlight(j) /\ handlers[i].id = handlers[j].id
          /\ handlers[j].acted)
       => ~(StepOf(i) /\ (sheet' # sheet \/ idToRow' # idToRow))]_vars

\* C3: at most one invocation of the change listener is in flight at any time.
C3_OneHandlerInFlight ==
  Cardinality({i \in 1..Len(handlers) : InFlight(i)}) <= 1

\* C4: when the handler of an insert event for an entity that idToRow did not
\* hold returns, its append having succeeded with a row number in the
\* response and no sink invocation having failed, idToRow gives the entity the
\* row at which the row was placed.
C4_InsertIndexed ==
  [][\A i \in 1..Len(handlers) :
       (StepOf(i) /\ handlers'[i] = Finished /\ handlers[i].op = "insert"
          /\ ~handlers[i].indexed /\ handlers[i].resp # Unparseable /\ ~degraded')
       => idToRow'[handlers[i].id] = handlers[i].placed]_vars

\* The handler of an update or replace event that found its entity in idToRow.
IndexedUpdate(h) == h.op \in UpdateOps /\ h.row # 0 /\ h.pc # "done"

\* C5 as stated: the handler of an update or replace event for an entity idToRow
\* maps to r overwrites exactly row r with docToRow of the event's document,
\* appends no row and leaves idToRow unchanged.
C5_UpdateOverwrites ==
  [][\A i \in 1..Len(handlers) :
       (StepOf(i) /\ IndexedUpdate(handlers[i]) /\ handlers[i].pc = "update")
       => /\ RowAt(sheet', handlers[i].row) = docToRow(handlers[i].doc)
          /\ \A q \in Rows : q # handlers[i].row => SameRow(q)
          /\ idToRow' = idToRow]_vars

\* C5 amended: an update or replace event for an entity idToRow maps to r is
\* dispatched to one update call on row r; when the call succeeds, exactly row
\* r is overwritten with docToRow of the event's document, and when its
\* retries are used up the sheet stays as it was; no step of the handler
\* appends a row or changes idToRow.
C5_UpdateOverwritesOrGivesUp ==
  [][/\ \A s \in RunIds :
          (Delivers(s) /\ Head(feed[s]).op \in UpdateOps
             /\ idToRow[Head(feed[s]).id] # 0)
          => LET h == handlers'[Len(handlers')]
             IN /\ h.pc = "update"
                /\ h.row = idToRow[Head(feed[s]).id]
                /\ h.doc \in FullDocuments(Head(feed[s]))
     /\ \A i \in 1..Len(handlers) :
          (StepOf(i) /\ IndexedUpdate(handlers[i]))
          => /\ idToRow' = idToRow
             /\ \A q \in Rows : q # handlers[i].row => SameRow(q)
             /\ handlers[i].pc \in {"update", "interakt"}
             /\ handlers[i].pc = "update" =>
                  /\ handlers'[i].pc = "interakt"
                  /\ \/ /\ handlers'[i].acted
                        /\ RowAt(sheet', handlers[i].row) = docToRow(handlers[i].doc)
                     \/ /\ ~handlers'[i].acted
                        /\ sheet' = sheet
                        /\ degraded'
             /\ handlers[i].pc = "interakt" =>
                  sheet' = sheet /\ handlers'[i] = Finished]_vars

\* An update call has overwritten the row idToRow gave the entity.
C5_Witness ==
  \E i \in 1..Len(handlers) :
    /\ IndexedUpdate(handlers[i])
    /\ handlers[i].pc = "interakt"
    /\ handlers[i].acted
    /\ handlers[i].doc # Null
    /\ sheet[handlers[i].row] = docToRow(handlers[i].doc)
    /\ idToRow[handlers[i].id] = handlers[i].row

\* The handler of an update or replace event that did not find its entity in
\* idToRow.
AbsentUpdate(h) == h.op \in UpdateOps /\ ~h.indexed /\ h.pc # "done"

C7_DeleteRemoves ==
  [][\A i \in 1..Len(handlers) :
       (StepOf(i) /\ handlers'[i] = Finished /\ handlers[i].op = "delete"
          /\ handlers[i].indexed /\ handlers[i].acted /\ ~degraded')
       => /\ IsBlank(RowAt(sheet', handlers[i].row))
          /\ idToRow'[handlers[i].id] = 0]_vars

\* C8: when the bootstrap completes (startSync has built the index and
\* subscribed), row 1 is the header, rows 2..N+1 are docToRow of the store's N
\* documents in store order, no other row holds data, and idToRow maps each
\* document's id to its row and nothing else.
C8_SnapshotBootstrap ==
  [][\A k \in 1..Len(runs) :
       (runs[k].pc = "indexBuild" /\ runs'[k].pc = "watching")
       => LET docs == FindAll(store', 1)
          IN /\ sheet' = ExportValues(docs)
             /\ \A i \in 1..Len(docs) : idToRow'[StringOf(docs[i]._id)] = i + 1
             /\ \A id \in IdStrs :
                  (\A i \in 1..Len(docs) : StringOf(docs[i]._id) # id)
                  => idToRow'[id] = 0]_vars

\* C9: withRetry given an operation that fails k < maxRetries times and then
\* succeeds returns the value of the successful invocation, the (k+1)-th, and
\* has invoked the operation k+1 times, no more.
C9_RetryThenSuccess ==
  (wr.pc = "returned" /\ ~wr.always /\ wr.k < wr.maxRetries)
  => /\ wr.result = [ok |-> TRUE, value |-> wr.k + 1]
     /\ wr.invocations = wr.k + 1

\* A call that failed at least once and then succeeded has returned.
C9_Witness ==
  /\ wr.pc = "returned"
  /\ ~wr.always
  /\ wr.k >= 1
  /\ wr.k < wr.maxRetries
  /\ wr.result.ok
  /\ wr.invocations = wr.k + 1

\* C10: withRetry with maxRetries = n >= 0 given an operation that fails on
\* every invocation invokes it exactly n + 1 times and returns (undefined)
\* instead of throwing, and has logged once per failed invocation.
C10_ExhaustionSwallowed ==
  /\ (wr.always /\ wr.pc # "none") => wr.logs = wr.invocations
  /\ (wr.always /\ wr.pc = "returned")
     => /\ wr.invocations = wr.maxRetries + 1
        /\ wr.result = [ok |-> FALSE, value |-> 0]
  /\ (wr.always /\ wr.pc # "returned") => wr.invocations <= wr.maxRetries

\* A call whose operation always failed has used up its retries and returned.
C10_Witness ==
  /\ wr.pc = "returned"
  /\ wr.always
  /\ wr.maxRetries >= 1
  /\ wr.invocations = wr.maxRetries + 1
  /\ wr.logs = wr.maxRetries + 1

\* C11: an exception raised in the handler of a change event stays in the
\* handler: no step of a handler, the one that catches the exception of a null
\* document included, ends or changes a subscription, schedules or starts a
\* run of startSync, or touches the events still to be delivered; and an event
\* at the head of a live stream's feed can be dispatched whatever the handlers
\* before it did.
C11_HandlerErrorContained ==
  [][/\ \A i \in 1..Len(handlers) :
          StepOf(i) =>
            /\ streams' = streams
            /\ timers' = timers
            /\ runs' = runs
            /\ feed' = feed
            /\ clientState' = clientState
            /\ (handlers[i].doc = Null /\ handlers[i].pc = "interakt")
                 => handlers'[i] = Finished
     /\ \A s \in RunIds :
          (Watching(s) /\ feed[s] # <<>>) => ENABLED Deliver(s)]_vars

\* The handler of an update whose document is null is about to throw in
\* syncToInterakt while its stream is live and has a further event to deliver.
C11_Witness ==
  \E i \in 1..Len(handlers) :
    /\ handlers[i].op \in UpdateOps
    /\ handlers[i].doc = Null
    /\ handlers[i].pc = "interakt"
    /\ Watching(handlers[i].stream)
    /\ feed[handlers[i].stream] # <<>>
    /\ ENABLED HandlerCatch(i)

(* --------------------------- timers do fire --------------------------- *)
\* Node runs a due timer: a pending setTimeout(startSync, d) fires.
SpecLive ==
  /\ Spec
  /\ WF_vars(TimerFire(ReconnectDelay))
  /\ WF_vars(TimerFire(StartupRetryDelay))

\* This step is stream s signalling 'error' or 'close' to its listeners.
Signals(s) ==
  /\ streams'[s].state # streams[s].state
  /\ streams'[s].state \in {"dead", "closed"}
  /\ runs' = runs

\* C12: whenever a change stream signals an error or a close, one more
\* setTimeout(startSync, 10000) is pending, the same delay every time, and none
\* of the other delay; and a pending one fires, starting a run of startSync
\* (as long as the model's budget of events lets a run start).
C12_StreamFailureRestarts ==
  /\ [][\A s \in RunIds :
          Signals(s) =>
            /\ ReconnectDelay = 10000
            /\ timers'[ReconnectDelay] = timers[ReconnectDelay] + 1
            /\ timers'[StartupRetryDelay] = timers[StartupRetryDelay]]_vars
  /\ \A m \in 1..(2 * (MaxEvents + 1)) :
       (timers[ReconnectDelay] = m)
         ~> (timers[ReconnectDelay] < m \/ Events >= MaxEvents)

\* A stream has failed and a run of startSync scheduled by its listener has
\* started.
C12_Witness ==
  /\ Len(runs) >= 2
  /\ streams[1].state \in {"dead", "closed"}
  /\ timers[StartupRetryDelay] = 0
  /\ runs[1].pc = "watching"

\* This step is a failure of the startup sequence or an error of the stream
\* in main().
LegacyFailure ==
  \/ runs[1].pc \in {"connecting", "header", "indexGet"} /\ runs'[1].pc = "failed"
  \/ streams[1].state = "open" /\ streams'[1].state = "dead"

\* C13: in main() of the first version, a failure of the startup sequence or
\* an error of the change stream leaves the process running and schedules a
\* retry of the sequence after the fixed startup delay, which is longer than
\* the stream-reconnect delay.
C13_LegacyFailureRetried ==
  [][LegacyFailure =>
       /\ legacy'.state = "running"
       /\ StartupRetryDelay > ReconnectDelay
       /\ timers'[StartupRetryDelay] = timers[StartupRetryDelay] + 1]_vars

\* Stream s belongs to a subscription that a later run of startSync replaces.
Superseded(s) == s < Len(runs)

\* C14: once a later run of startSync has begun, no listener call of an earlier
\* subscription writes the sheet or idToRow, and only the subscription of the
\* latest run dispatches events.
C14_RestartIsolation ==
  [][/\ \A i \in 1..Len(handlers) :
          (StepOf(i) /\ Superseded(handlers[i].stream)) =>
             (sheet' = sheet /\ idToRow' = idToRow)
     /\ \A s \in RunIds : Delivers(s) => ~Superseded(s)]_vars

\* No run of startSync is pending or inside its bootstrap, no event waits for
\* its listener call, no listener call is in flight and no sink call has failed.
Settled ==
  /\ ~degraded
  /\ \A d \in Delays : timers[d] = 0
  /\ \A s \in RunIds : feed[s] = <<>>
  /\ \A k \in 1..Len(runs) : runs[k].pc \in {"watching", "failed"}
  /\ \A i \in 1..Len(handlers) : ~InFlight(i)

\* C15: row index invariant (a): whenever the process is settled, every entry
\* id -> r of idToRow names a row whose cells are that entity's data: the
\* process has not cleared row r nor written another entity's data to it since.
C15_IndexedRowHoldsEntity ==
  Settled => \A id \in IdStrs :
               idToRow[id] # 0 => IdCell(RowAt(sheet, idToRow[id])) = id

\* C16: every row number held by idToRow is at least 2, and no listener call
\* addresses its updateRow or clearRow at the header row.
C16_RowsBelowHeader ==
  /\ \A id \in IdStrs : idToRow[id] # 0 => idToRow[id] >= 2
  /\ \A i \in 1..Len(handlers) :
       handlers[i].pc \in {"update", "clear"} => handlers[i].row >= 2

\* The second handling of the event has returned and no sink call failed.
HandledTwice == snap.phase = "again" /\ NoneInFlight /\ ~degraded

\* C17: handling the same change event a second time, right after the first
\* handling has returned, leaves the sheet and idToRow as the first handling
\* left them; for an insert no second row is created.
C17_RedeliveryIdempotent ==
  HandledTwice => (sheet = snap.sheet /\ idToRow = snap.idToRow)

\* For update, replace and delete events the second handling changes nothing.
C17_RedeliveryIdempotentButInsert ==
  (HandledTwice /\ snap.ev.op # "insert") =>
     (sheet = snap.sheet /\ idToRow = snap.idToRow)

\* Run k of startSync is at one of its calls to the sheet.
AtSinkCall(k) == runs[k].pc \in {"clearSheet", "initialExport", "indexGet"}

\* C18: every call of startSync to the sheet, the range read of
\* buildIndexFromSheet included, goes through withRetry: a failure of the call
\* is retried and never reaches the catch of startSync.
C18_SinkCallsRetried ==
  [][\A k \in 1..Len(runs) : AtSinkCall(k) => runs'[k].pc # "failed"]_vars

\* The number a label stands for: A = 1 .. Z = 26, positional, no zero digit.
DigitOf(c) == CHOOSE d \in 1..26 : Alphabet[d] = c
RECURSIVE columnIndex(_)
columnIndex(s) ==
  IF s = <<>> THEN 0
  ELSE columnIndex(SubSeq(s, 1, Len(s) - 1)) * 26 + DigitOf(s[Len(s)])

\* C19: toCol is bijective base-26 numbering: for every n >= 1 the label
\* toCol(n) read back as a number is n, no other number has the same label,
\* and toCol(1) = "A", toCol(26) = "Z", toCol(27) = "AA", toCol(702) = "ZZ".
C19_ToColBijective ==
  (pure.fn = "toCol" /\ pure.done) =>
     /\ columnIndex(pure.out) = pure.n
     /\ \A m \in 1..MaxCol : m # pure.n => toCol(m) # pure.out
     /\ pure.n = 1 => pure.out = << "A" >>
     /\ pure.n = 26 => pure.out = << "Z" >>
     /\ pure.n = 27 => pure.out = << "A", "A" >>
     /\ pure.n = 702 => pure.out = << "Z", "Z" >>

C19_Witness ==
  pure.fn = "toCol" /\ pure.done /\ pure.n = 702 /\ Len(pure.out) = 2

\* The document reduced to the field named key.
OnlyField(doc, key) == [k \in {key} \cap DOMAIN doc |-> doc[k]]

\* docToRow returned a row of COLUMNS.length cells, the i-th made from the
\* field of the i-th key alone and "" when that field is absent or null.
RowPerSchema ==
  /\ Len(pure.out) = Len(COLUMNS)
  /\ \A i \in 1..Len(COLUMNS) :
       LET key == COLUMNS[i].key IN
       /\ pure.out[i] = CellOf(OnlyField(pure.doc, key), key)
       /\ (key \notin DOMAIN pure.doc \/ pure.doc[key] = NullVal) => pure.out[i] = ""

\* C20: docToRow is total and order-preserving: for every document, null and
\* documents with missing fields included, it returns without raising, and the
\* row it returns follows the schema.
C20_DocToRowTotal ==
  (pure.fn = "docToRow" /\ pure.done) => (~pure.raised /\ RowPerSchema)

\* For documents none of whose fields makes the callback throw, docToRow
\* returns a row that follows the schema.
C20_DocToRowPerSchemaWhenReturned ==
  (pure.fn = "docToRow" /\ pure.done /\ ~docToRowRaises(pure.doc)) =>
     (~pure.raised /\ RowPerSchema)

Answered == pure.fn = "http" /\ pure.done

\* C21: the HTTP server answers every request, whatever its method and path
\* and whatever the sync pipeline is doing, with status 200 and the server's
\* fixed health text.
C21_AlwaysHealthText ==
  Answered => (pure.res.status = 200 /\ pure.res.body = HealthText[pure.server])

\* The keep-alive servers of the sync.js variant and of part_001 do so.
C21_KeepAliveAlwaysHealthText ==
  (Answered /\ pure.server # "express") =>
     (pure.res.status = 200 /\ pure.res.body = HealthText[pure.server])

\* The steps of one run of startSync, in the order of its text.
StartupOrder ==
  << "closing", "connecting", "clearSheet", "initialExport", "indexGet",
     "indexBuild", "watching" >>
Rank(pc) == CHOOSE r \in 1..Len(StartupOrder) : StartupOrder[r] = pc

\* C22: every run of startSync goes through its steps in the order close the
\* previous client, connect and read all documents, clear the sheet, write
\* header and rows, read the sheet and rebuild idToRow, subscribe; a run leaves
\* the order only by failing; the stream a run opens dispatches an event only
\* after that run has rebuilt the index.
C22_StartupOrder ==
  [][/\ \A k \in 1..Len(runs) :
          runs'[k].pc # runs[k].pc =>
             \/ runs'[k].pc = "failed"
             \/ runs[k].pc # "failed" /\ Rank(runs'[k].pc) = Rank(runs[k].pc) + 1
     /\ Len(runs') > Len(runs) => runs'[Len(runs')].pc = "closing"
     /\ \A s \in RunIds : Delivers(s) => (s <= Len(runs) /\ runs[s].pc = "watching")]_vars

C22_Witness ==
  /\ Len(runs) >= 2
  /\ runs[2].pc = "watching"
  /\ \E i \in 1..Len(handlers) : handlers[i].stream = 2

\* This step ends the bulk clear or the bulk write of run k without the call
\* having succeeded.
BootstrapCallLost(k) ==
  /\ runs'[k].pc # runs[k].pc
  /\ \/ runs[k].pc = "clearSheet" /\ sheet' # SheetClearAll(sheet)
     \/ /\ runs[k].pc = "initialExport"
        /\ sheet' # SheetWriteFromA1(sheet, ExportValues(runs[k].docs))

\* C23: when the bulk clear or the bulk write of a run of startSync ends
\* without having succeeded, the run is abandoned: it does not go on towards
\* the subscription, and a run of startSync is scheduled after the startup delay.
C23_BootstrapSinkFailureRestarts ==
  [][\A k \in 1..Len(runs) :
        BootstrapCallLost(k) =>
           /\ runs'[k].pc = "failed"
           /\ timers'[StartupRetryDelay] = timers[StartupRetryDelay] + 1]_vars

\* This step is the index rebuild of a run: the map is what the scan gives,
\* with nothing kept from before.
RebuildStep ==
  \E k \in 1..Len(runs) :
     /\ runs[k].pc = "indexBuild"
     /\ runs'[k].pc = "watching"
     /\ idToRow' = buildIndexFromSheet(runs[k].rows)

\* This step sets one entry after an append that succeeded and whose response
\* named a row.
AppendSetStep ==
  \E i \in 1..Len(handlers) :
     /\ StepOf(i)
     /\ handlers[i].pc = "appendResp"
     /\ handlers[i].resp # Unparseable
     /\ idToRow' = [idToRow EXCEPT ![handlers[i].id] = handlers[i].resp]

\* This step removes the entry of the entity of a delete event that found the
\* entity indexed.
DeleteRemoveStep ==
  \E i \in 1..Len(handlers) :
     /\ StepOf(i)
     /\ handlers[i].op = "delete"
     /\ handlers[i].indexed
     /\ idToRow' = [idToRow EXCEPT ![handlers[i].id] = 0]

\* C24: idToRow changes only by the index rebuild of a run of startSync, by
\* the set after a successful append with a parsed row number, and by the
\* removal in a delete event for an indexed entity; the sheet call of appendRow
\* (successful, failed or exhausted), updateRow, the push to Interakt and an
\* error caught by the listener leave it as it is.
C24_IndexFrame ==
  [][/\ idToRow' # idToRow => (RebuildStep \/ AppendSetStep \/ DeleteRemoveStep)
     /\ \A i \in 1..Len(handlers) :
          (StepOf(i) /\ handlers[i].pc \in {"append", "update", "interakt"}) =>
             idToRow' = idToRow]_vars

C24_Witness ==
  \E i \in 1..Len(handlers) :
     /\ handlers[i].op = "insert"
     /\ handlers[i].pc = "interakt"
     /\ handlers[i].resp # Unparseable
     /\ idToRow[handlers[i].id] = handlers[i].resp

\* The positions (1-based) of the rows read whose id cell is id.
RowsOf(rows, id) == {i \in 1..Len(rows) : IdCell(rows[i]) = id}
LastOf(S) == CHOOSE i \in S : \A j \in S : j <= i

\* C25: after buildIndexFromSheet the map holds, for every id found in a
\* non-blank id cell of the rows read, the sheet row of the last such row (the
\* i-th row read, counted from 0, is sheet row i + 2), and nothing else: no
\* entry from before the rebuild, none for rows without an id, which still
\* count as rows.
C25_IndexRebuild ==
  (pure.fn = "buildIndexFromSheet" /\ pure.done) =>
     \A id \in IdStrs :
        idToRow[id] = IF RowsOf(pure.rows, id) = {} THEN 0
                      ELSE (LastOf(RowsOf(pure.rows, id)) - 1) + 2

C25_Witness ==
  /\ pure.fn = "buildIndexFromSheet"
  /\ pure.done
  /\ pure.before["e2"] # 0
  /\ idToRow["e2"] = 0
  /\ Len(pure.rows) = 3
  /\ IdCell(pure.rows[1]) = ""
  /\ IdCell(pure.rows[2]) = "e1"
  /\ idToRow["e1"] = 4

\* C26: when the response of values.append names no row, appendRow neither
\* raises nor appends again: the listener call goes on to the Interakt push,
\* the sheet keeps the appended row and idToRow stays as it is; an update or
\* replace event for an entity idToRow does not hold is dispatched to appendRow.
C26_UnparsedAppend ==
  [][/\ \A i \in 1..Len(handlers) :
          (StepOf(i) /\ handlers[i].pc = "appendResp"
                     /\ handlers[i].resp = Unparseable) =>
             /\ handlers'[i].pc = "interakt"
             /\ sheet' = sheet
             /\ idToRow' = idToRow
             /\ streams' = streams /\ timers' = timers
     /\ \A s \in RunIds :
          (Delivers(s) /\ Head(feed[s]).op \in UpdateOps
                       /\ idToRow[Head(feed[s]).id] = 0) =>
             handlers'[Len(handlers')].pc = "append"]_vars

\* The append of an entity returned without a row number, and an update of the
\* same entity has been dispatched to appendRow; the first row is still there.
C26_Witness ==
  /\ Len(runs) = 1
  /\ Len(handlers) = 2
  /\ ~InFlight(1)
  /\ handlers[2].op \in UpdateOps
  /\ handlers[2].pc = "append"
  /\ ~handlers[2].indexed
  /\ \E r \in 2..Len(sheet) : IdCell(RowAt(sheet, r)) = handlers[2].id

\* C27: in withRetry(fn, label, n, d) the wait before the i-th retry is
\* d * 2^(i-1): the first wait is the delay the call was given and each later
\* one is twice the one before; there are at most n waits, and none after the
\* invocation that returned or that used up the retries; with n = 3 and
\* d = 1000 the waits are 1000, 2000 and 4000 ms.
C27_ExponentialBackoff ==
  /\ [](wr.pc # "none" =>
          /\ \A i \in 1..Len(wr.waits) : wr.waits[i] = wr.waits[1] * 2^(i - 1)
          /\ Len(wr.waits) <= wr.maxRetries
          /\ wr.pc = "returned" => Len(wr.waits) = wr.invocations - 1
          /\ wr.pc = "wait" => Len(wr.waits) = wr.invocations
          /\ (wr.waits # <<>> /\ wr.waits[1] = 1000 /\ wr.maxRetries = 3) =>
                wr.waits = SubSeq(<< 1000, 2000, 4000 >>, 1, Len(wr.waits)))
  /\ [][(wr.waits = <<>> /\ wr'.waits # <<>>) =>
           (wr.invocations = 0 /\ wr'.waits = << wr.delay >>)]_vars

\* A call with the defaults whose operation always failed has returned after
\* its three waits.
C27_Witness ==
  /\ wr.pc = "returned"
  /\ wr.always
  /\ wr.maxRetries = DefaultRetries
  /\ wr.waits = << 1000, 2000, 4000 >>

\* A step of the listener call of a delete event changes no row but the
\* entity's and no entry of idToRow but the entity's.
DeleteFrame ==
  \A i \in 1..Len(handlers) :
     (StepOf(i) /\ handlers[i].op = "delete") =>
        /\ \A r \in Rows : r # handlers[i].row => SameRow(r)
        /\ \A id \in IdStrs : id # handlers[i].id => idToRow'[id] = idToRow[id]

\* The row of the deleted entity is held by no other entity.
RowKeptFree ==
  snap.phase = "deleted" =>
     \A id \in IdStrs :
        id # snap.ev.id => idToRow[id] # snap.idToRow[snap.ev.id]

\* C28: handling a delete event for an entity at row r changes no other row
\* and no other entry of idToRow, and afterwards no append assigns row r to a
\* different entity.
C28_LogicalDelete == [][DeleteFrame]_vars /\ []RowKeptFree

\* The first half alone: the delete touches only the entity's row and entry.
C28_DeleteTouchesOnlyItsRow == [][DeleteFrame]_vars

WriteOps == {"insert", "update", "replace"}

C30_NoRetryWithoutFailure ==
  ~degraded => \A k \in 1..Len(runs) : runs[k].pc # "failed"

\* The runs of startSync that are scheduled (a timer is pending) or under way
\* (neither subscribed nor abandoned).
PendingRuns == timers[ReconnectDelay] + timers[StartupRetryDelay]
ExecutingRuns == {k \in 1..Len(runs) : runs[k].pc \notin {"watching", "failed"}}

\* C31: at any time at most one run of startSync is scheduled or under way.
C31_OneRunAtATime == PendingRuns + Cardinality(ExecutingRuns) <= 1

\* The data rows of the sheet that hold entity id.
RowsHolding(id) == {r \in 2..Len(sheet) : IdCell(sheet[r]) = id}

\* C32: while the first run is watching, no restart has happened, no sink call
\* has failed and every listener call has returned, the sheet holds at most
\* one data row per entity.
C32_OneRowPerEntity ==
  (Len(runs) = 1 /\ runs[1].pc = "watching" /\ ~degraded /\ NoneInFlight) =>
     \A id \in IdStrs : Cardinality(RowsHolding(id)) <= 1

\* C33: idToRow is injective: no two entities are mapped to the same row.
C33_IndexInjective ==
  \A a, b \in IdStrs :
     (a # b /\ idToRow[a] # 0 /\ idToRow[b] # 0) => idToRow[a] # idToRow[b]

\* C33 (settled form): idToRow is injective whenever the first run is watching,
\* no sink call has failed and every listener call has returned.
C33_IndexInjectiveWhenSettled ==
  (Len(runs) = 1 /\ runs[1].pc = "watching" /\ ~degraded /\ NoneInFlight) =>
     C33_IndexInjective

NullDocumentCall(i) ==
  /\ i \in 1..Len(handlers)
  /\ handlers[i].op \in WriteOps
  /\ handlers[i].doc = Null
  /\ InFlight(i)

\* C34: a step of a listener call for an insert, update or replace whose full
\* document is null changes neither the sheet nor idToRow.
C34_NullDocumentWritesNothing ==
  [][\A i \in 1..Len(handlers) :
       (NullDocumentCall(i) /\ i <= Len(handlers') /\ handlers'[i] # handlers[i])
          => (sheet' = sheet /\ idToRow' = idToRow)]_vars

HasPhoneField(rec) ==
  \E i \in 1..Len(PhoneKeys) : rec.phones[PhoneKeys[i]].t # "absent"

\* The first three parts of C35: pushes only for records with a phone field,
\* only of numbers that start with '+' and have at least 10 digits.
C35_PushesValidated ==
  (pure.fn = "syncToInterakt" /\ pure.done /\ ~pure.rec.isNull) =>
     /\ ~HasPhoneField(pure.rec) => ~pure.posted
     /\ pure.posted => /\ StartsWithPlus(pure.sent.phoneNumber)
                       /\ DigitCount(pure.sent.phoneNumber) >= 10
     /\ (/\ Truthy(FirstTruthy(PhoneKeys, pure.rec.phones))
         /\ ~CountryCodeRaises(pure.rec)
         /\ DigitCount(NormalizedPhone(pure.rec)) < 10) => ~pure.posted

\* C35: syncToInterakt of part_000 sends no request for a record without a
\* phone field or with fewer than 10 digits, sends only numbers that start with
\* '+' and have at least 10 digits, and never raises to its caller.
C35_ValidatedAndNeverRaises ==
  /\ C35_PushesValidated
  /\ (pure.fn = "syncToInterakt" /\ pure.done) => ~pure.raised

RECURSIVE CreatedInTable(_)
\* The created records of the events of the configured table, in order.
CreatedInTable(payloads) ==
  IF payloads = <<>> THEN <<>>
  ELSE (IF Head(payloads).tableId = ConfiguredTable THEN Head(payloads).created
        ELSE <<>>) \o CreatedInTable(Tail(payloads))

\* The parts of C36 about the loop: records of other tables are not touched and
\* every created record of the configured table gets its turn, whatever
\* happened to the records before it.
C36_EveryRecordGetsItsTurn ==
  (pure.fn = "webhook" /\ pure.status # 0) =>
     pure.processed = [k \in 1..Len(CreatedInTable(pure.payloads)) |->
                         CreatedInTable(pure.payloads)[k].id]

\* C36: when the webhook has answered, exactly one push was attempted for every
\* created record of the events of the configured table, with that record's
\* fields, and none for other tables; every such record got its turn.
C36_OnePushPerCreatedRecord ==
  (pure.fn = "webhook" /\ pure.status # 0) =>
     /\ pure.pushes = [k \in 1..Len(CreatedInTable(pure.payloads)) |->
                         AirtableRecord(CreatedInTable(pure.payloads)[k])]
     /\ C36_EveryRecordGetsItsTurn

\* How the sheet service reads an A1 range: the two endpoints around ':', each
\* a column label followed by a decimal row number.
IsLetter(c) == \E k \in 1..Len(Alphabet) : Alphabet[k] = c
LetterIndex(c) == CHOOSE k \in 1..Len(Alphabet) : Alphabet[k] = c
DigitValue(c) == (CHOOSE k \in 1..Len(DigitText) : DigitText[k] = c) - 1
RECURSIVE ColumnIndex(_)
ColumnIndex(label) ==
  IF label = <<>> THEN 0
  ELSE 26 * ColumnIndex(SubSeq(label, 1, Len(label) - 1))
         + LetterIndex(label[Len(label)])
RECURSIVE DecimalValue(_)
DecimalValue(digits) ==
  IF digits = <<>> THEN 0
  ELSE 10 * DecimalValue(SubSeq(digits, 1, Len(digits) - 1))
         + DigitValue(digits[Len(digits)])
ColonAt(a1) == CHOOSE k \in 1..Len(a1) : a1[k] = ":"
Endpoint(chars) ==
  [label |-> SelectSeq(chars, IsLetter),
   col |-> ColumnIndex(SelectSeq(chars, IsLetter)),
   row |-> DecimalValue(SelectSeq(chars, IsDigit))]
RangeStart(a1) == Endpoint(SubSeq(a1, 1, ColonAt(a1) - 1))
RangeEnd(a1) == Endpoint(SubSeq(a1, ColonAt(a1) + 1, Len(a1)))
\* The cells of a range, as <<row, column>>.
RangeCells(a1) ==
  {<<r, c>> : r \in RangeStart(a1).row..RangeEnd(a1).row,
              c \in RangeStart(a1).col..RangeEnd(a1).col}

\* C37: rowRangeA1(rowNumber) is a range on the configured sheet from column A
\* to the column of the last of COLUMNS, both endpoints on rowNumber: its cells
\* are those of the one row, one per configured column.
C37_RowRangeOneRowAllColumns ==
  (pure.fn = "rowRangeA1" /\ pure.done) =>
     /\ pure.out.sheet = SHEET_NAME
     /\ RangeStart(pure.out.a1).label = <<"A">>
     /\ RangeEnd(pure.out.a1).label = toCol(Len(COLUMNS))
     /\ RangeStart(pure.out.a1).row = pure.rowNumber
     /\ RangeEnd(pure.out.a1).row = pure.rowNumber
     /\ RangeCells(pure.out.a1) =
          {<<pure.rowNumber, c>> : c \in 1..Len(COLUMNS)}

C37_RangeOfLaterRow ==
  pure.fn = "rowRangeA1" /\ pure.done /\ pure.rowNumber > 9

====
